---- MODULE Spec2Model ----
(***************************************************************************)
(* Model of the settings normalizer (validateAndNormalizeAISettings) and   *)
(* the XMP serializer (convertSettingsToXMP) of src/lib/presetUtils.ts.    *)
(*                                                                         *)
(* JavaScript values are records [t, n, s, a]: t is the kind of value, n   *)
(* the magnitude of a finite number held in TENTHS (5 is 0.5, 50 is 5), s  *)
(* the text of a string or the class of a number ("finite", "NaN",         *)
(* "Infinity", "-Infinity"), a the elements of an array or the             *)
(* <<key, value>> properties of an object in enumeration order.            *)
(***************************************************************************)
EXTENDS Integers, Sequences, FiniteSets, TLC

\* ------------------------------------------------------------------------
\* JavaScript values
\* ------------------------------------------------------------------------
Undefined == [t |-> "undefined", n |-> 0, s |-> "", a |-> <<>>]

Null == [t |-> "null", n |-> 0, s |-> "", a |-> <<>>]

Bool(b) == [t |-> "boolean", n |-> IF b THEN 1 ELSE 0, s |-> "", a |-> <<>>]

\* a finite number, given in tenths
Num(n) == [t |-> "number", n |-> n, s |-> "finite", a |-> <<>>]

\* a whole number i
Whole(i) == Num(i * 10)

NaN == [t |-> "number", n |-> 0, s |-> "NaN", a |-> <<>>]

PosInf == [t |-> "number", n |-> 0, s |-> "Infinity", a |-> <<>>]

NegInf == [t |-> "number", n |-> 0, s |-> "-Infinity", a |-> <<>>]

Str(s) == [t |-> "string", n |-> 0, s |-> s, a |-> <<>>]

Arr(a) == [t |-> "array", n |-> 0, s |-> "", a |-> a]

Obj(props) == [t |-> "object", n |-> 0, s |-> "", a |-> props]

\* typeof v
TypeOf(v) == IF v.t \in {"array", "null", "object"} THEN "object" ELSE v.t

\* Array.isArray(v)
IsArray(v) == v.t = "array"

\* isNaN(v) for a value whose typeof is number
IsNaN(v) == v.t = "number" /\ v.s = "NaN"

\* Number.isInteger(v)
IsInteger(v) == v.t = "number" /\ v.s = "finite" /\ v.n % 10 = 0

\* a <= b on numbers that are not NaN
NumLeq(a, b) ==
  \/ a.s = "-Infinity"
  \/ b.s = "Infinity"
  \/ a.s = "finite" /\ b.s = "finite" /\ a.n <= b.n

\* Math.min(a, b)
MathMin(a, b) == IF IsNaN(a) \/ IsNaN(b) THEN NaN ELSE IF NumLeq(a, b) THEN a ELSE b

\* Math.max(a, b)
MathMax(a, b) == IF IsNaN(a) \/ IsNaN(b) THEN NaN ELSE IF NumLeq(a, b) THEN b ELSE a

\* clamp with the upper bound forgotten
clampWithoutUpper(value, min, max) == MathMax(min, value)

\* clamp(value, min, max)
clamp(value, min, max) == MathMax(min, MathMin(max, value))

\* key in obj, for an object or an array (an array owns none of the field names)
HasKey(obj, key) == obj.t = "object" /\ \E i \in 1..Len(obj.a) : obj.a[i][1] = key

\* obj[key]
GetKey(obj, key) ==
  IF HasKey(obj, key)
  THEN obj.a[CHOOSE i \in 1..Len(obj.a) : obj.a[i][1] = key][2]
  ELSE Undefined

\* Object.keys(obj)
Keys(obj) == [i \in 1..Len(obj.a) |-> obj.a[i][1]]

\* ------------------------------------------------------------------------
\* The normalizer's field table: one entry per assignment of
\* validateAndNormalizeAISettings, in the order of the assignments
\* ------------------------------------------------------------------------
HSL_COLORS == <<"Red", "Orange", "Yellow", "Green", "Aqua", "Blue", "Purple", "Magenta">>

NumberCall(key, min, max, def, allowFloats) ==
  [key |-> key, fn |-> "getNumber", min |-> min, max |-> max, def |-> def, allowFloats |-> allowFloats]

StringCall(key, def) ==
  [key |-> key, fn |-> "getString", min |-> Undefined, max |-> Undefined, def |-> def, allowFloats |-> TRUE]

CurveCall(key) ==
  [key |-> key, fn |-> "getToneCurve", min |-> Undefined, max |-> Undefined, def |-> Undefined, allowFloats |-> TRUE]

BasicCalls == <<
  NumberCall("exposure", Whole(-5), Whole(5), Whole(0), TRUE),
  NumberCall("contrast", Whole(-100), Whole(100), Whole(0), TRUE),
  NumberCall("highlights", Whole(-100), Whole(100), Whole(0), TRUE),
  NumberCall("shadows", Whole(-100), Whole(100), Whole(0), TRUE),
  NumberCall("whites", Whole(-100), Whole(100), Whole(0), TRUE),
  NumberCall("blacks", Whole(-100), Whole(100), Whole(0), TRUE),
  NumberCall("texture", Whole(-100), Whole(100), Whole(0), TRUE),
  NumberCall("clarity", Whole(-100), Whole(100), Whole(0), TRUE),
  NumberCall("dehaze", Whole(-100), Whole(100), Whole(0), TRUE),
  NumberCall("vibrance", Whole(-100), Whole(100), Whole(0), TRUE),
  NumberCall("saturation", Whole(-100), Whole(100), Whole(0), TRUE) >>

WhiteBalanceCalls == <<
  NumberCall("temperature", Whole(2000), Whole(50000), Whole(6500), FALSE),
  NumberCall("tint", Whole(-150), Whole(150), Whole(0), FALSE) >>

ToneCurveCalls == <<
  StringCall("toneCurvePV", Str("2012")),
  CurveCall("toneCurve"),
  CurveCall("toneCurveRed"),
  CurveCall("toneCurveGreen"),
  CurveCall("toneCurveBlue") >>

HslPrefixes == <<"hslHue", "hslSaturation", "hslLuminance">>

\* HSL_COLORS.forEach: hue, saturation and luminance of one colour, then the next
HslCalls ==
  [i \in 1..(3 * Len(HSL_COLORS)) |->
     NumberCall(HslPrefixes[((i - 1) % 3) + 1] \o HSL_COLORS[((i - 1) \div 3) + 1],
                Whole(-100), Whole(100), Whole(0), FALSE)]

SharpeningCalls == <<
  NumberCall("sharpeningAmount", Whole(0), Whole(150), Whole(0), FALSE),
  NumberCall("sharpeningRadius", Num(5), Whole(3), Whole(1), TRUE),
  NumberCall("sharpeningDetail", Whole(0), Whole(100), Whole(25), FALSE),
  NumberCall("sharpeningMasking", Whole(0), Whole(100), Whole(0), FALSE) >>

GrainCalls == <<
  NumberCall("grainAmount", Whole(0), Whole(100), Whole(0), FALSE),
  NumberCall("grainSize", Whole(0), Whole(100), Whole(25), FALSE),
  NumberCall("grainFrequency", Whole(0), Whole(100), Whole(50), FALSE) >>

ColorGradeCalls == <<
  NumberCall("colorGradeShadowHue", Whole(0), Whole(359), Whole(0), FALSE),
  NumberCall("colorGradeShadowSat", Whole(0), Whole(100), Whole(0), FALSE),
  NumberCall("colorGradeShadowLum", Whole(-100), Whole(100), Whole(0), TRUE),
  NumberCall("colorGradeMidtoneHue", Whole(0), Whole(359), Whole(0), FALSE),
  NumberCall("colorGradeMidtoneSat", Whole(0), Whole(100), Whole(0), FALSE),
  NumberCall("colorGradeMidtoneLum", Whole(-100), Whole(100), Whole(0), TRUE),
  NumberCall("colorGradeHighlightHue", Whole(0), Whole(359), Whole(0), FALSE),
  NumberCall("colorGradeHighlightSat", Whole(0), Whole(100), Whole(0), FALSE),
  NumberCall("colorGradeHighlightLum", Whole(-100), Whole(100), Whole(0), TRUE),
  NumberCall("colorGradeGlobalHue", Whole(0), Whole(359), Whole(0), FALSE),
  NumberCall("colorGradeGlobalSat", Whole(0), Whole(100), Whole(0), FALSE),
  NumberCall("colorGradeGlobalLum", Whole(-100), Whole(100), Whole(0), TRUE),
  NumberCall("colorGradeBlending", Whole(0), Whole(100), Whole(50), FALSE),
  NumberCall("colorGradeBalance", Whole(-100), Whole(100), Whole(0), TRUE) >>

SplitToningCalls == <<
  NumberCall("splitToningHighlightHue", Whole(0), Whole(359), Undefined, FALSE),
  NumberCall("splitToningHighlightSaturation", Whole(0), Whole(100), Undefined, FALSE),
  NumberCall("splitToningShadowHue", Whole(0), Whole(359), Undefined, FALSE),
  NumberCall("splitToningShadowSaturation", Whole(0), Whole(100), Undefined, FALSE),
  NumberCall("splitToningBalance", Whole(-100), Whole(100), Undefined, TRUE) >>

ProfileCalls == <<
  StringCall("cameraProfile", Str("Adobe Standard")),
  StringCall("processVersion", Str("13.3")) >>

FieldCalls ==
  BasicCalls \o WhiteBalanceCalls \o ToneCurveCalls \o HslCalls \o SharpeningCalls
    \o GrainCalls \o ColorGradeCalls \o SplitToningCalls \o ProfileCalls

\* the versions that the normalizer lets through
KnownProcessVersions ==
  {"6.7", "11.0", "12.0", "13.0", "13.1", "13.2", "13.3", "14.0", "15.0", "16.0"}

\* ------------------------------------------------------------------------
\* validateAndNormalizeAISettings and its helpers
\* ------------------------------------------------------------------------
\* the fallback that drops the field instead of defaulting it
NumberFallbackDropping(min, max, defaultValue) == Undefined

\* what getNumber returns for a value that is not a usable number
NumberFallback(min, max, defaultValue) ==
  IF defaultValue # Undefined
  THEN IF min # Undefined /\ max # Undefined THEN clamp(defaultValue, min, max) ELSE defaultValue
  ELSE Undefined

\* getNumber that rejects an out-of-range number instead of clamping it
getNumberRejecting(rawSettings, key, min, max, defaultValue, allowFloats) ==
  LET held == GetKey(rawSettings, key)
      val == IF held = Undefined /\ defaultValue # Undefined THEN defaultValue ELSE held
      fallback == IF defaultValue # Undefined THEN defaultValue ELSE Undefined
  IN  IF ~HasKey(rawSettings, key) /\ defaultValue = Undefined
      THEN Undefined
      ELSE IF TypeOf(val) # "number" \/ IsNaN(val) THEN fallback
      ELSE IF ~allowFloats /\ ~IsInteger(val) THEN fallback
      ELSE IF NumLeq(min, val) /\ NumLeq(val, max) THEN val
      ELSE fallback

\* getNumber that truncates a fractional value of an integer-only field
getNumberTruncating(rawSettings, key, min, max, defaultValue, allowFloats) ==
  LET held == GetKey(rawSettings, key)
      val == IF held = Undefined /\ defaultValue # Undefined THEN defaultValue ELSE held
      fallback == IF defaultValue # Undefined THEN clamp(defaultValue, min, max) ELSE Undefined
      whole == IF val.s = "finite"
               THEN Num(IF val.n < 0 THEN -(((-val.n) \div 10) * 10) ELSE (val.n \div 10) * 10)
               ELSE val
  IN  IF ~HasKey(rawSettings, key) /\ defaultValue = Undefined
      THEN Undefined
      ELSE IF TypeOf(val) # "number" \/ IsNaN(val) THEN fallback
      ELSE IF ~allowFloats THEN clamp(whole, min, max)
      ELSE clamp(val, min, max)

getNumber(rawSettings, key, min, max, defaultValue, allowFloats) ==
  IF ~HasKey(rawSettings, key) /\ defaultValue = Undefined
  THEN Undefined
  ELSE LET held == GetKey(rawSettings, key)
           val == IF held = Undefined /\ defaultValue # Undefined THEN defaultValue ELSE held
       IN  IF TypeOf(val) # "number" \/ IsNaN(val)
           THEN NumberFallback(min, max, defaultValue)
           ELSE IF ~allowFloats /\ ~IsInteger(val)
           THEN NumberFallback(min, max, defaultValue)
           ELSE IF min # Undefined /\ max # Undefined THEN clamp(val, min, max) ELSE val

\* getString that turns a value that is not a string into its text
getStringCoercing(rawSettings, key, defaultValue) ==
  IF ~HasKey(rawSettings, key) /\ defaultValue = Undefined
  THEN Undefined
  ELSE LET held == GetKey(rawSettings, key)
       IN  IF held = Undefined /\ defaultValue # Undefined
           THEN defaultValue
           ELSE IF held.t = "string"
           THEN held
           ELSE IF held.t = "number" /\ held.s = "finite"
           THEN Str(ToString(held.n \div 10))
           ELSE Str(held.t)

getString(rawSettings, key, defaultValue) ==
  IF ~HasKey(rawSettings, key) /\ defaultValue = Undefined
  THEN Undefined
  ELSE LET held == GetKey(rawSettings, key)
           val == IF held = Undefined /\ defaultValue # Undefined THEN defaultValue ELSE held
       IN  IF TypeOf(val) # "string" THEN defaultValue ELSE val

\* the test of getToneCurve on one candidate point
IsValidPoint(point) ==
  /\ IsArray(point)
  /\ Len(point.a) = 2
  /\ TypeOf(point.a[1]) = "number"
  /\ TypeOf(point.a[2]) = "number"
  /\ ~IsNaN(point.a[1])
  /\ ~IsNaN(point.a[2])

\* the point that getToneCurve pushes for a valid candidate
ClampPoint(point) ==
  Arr(<<clamp(point.a[1], Whole(0), Whole(255)), clamp(point.a[2], Whole(0), Whole(255))>>)

RECURSIVE ValidPointsUntilInvalid(_)
\* the loop over the points that stops at the first invalid point
ValidPointsUntilInvalid(curveData) ==
  IF curveData = <<>>
  THEN <<>>
  ELSE IF IsArray(Head(curveData)) /\ Len(Head(curveData).a) = 2
          /\ TypeOf(Head(curveData).a[1]) = "number" /\ TypeOf(Head(curveData).a[2]) = "number"
          /\ ~IsNaN(Head(curveData).a[1]) /\ ~IsNaN(Head(curveData).a[2])
       THEN <<Arr(<<clamp(Head(curveData).a[1], Whole(0), Whole(255)),
                    clamp(Head(curveData).a[2], Whole(0), Whole(255))>>)>>
              \o ValidPointsUntilInvalid(Tail(curveData))
       ELSE <<>>

RECURSIVE ValidPoints(_)
ValidPoints(curveData) ==
  IF curveData = <<>>
  THEN <<>>
  ELSE IF IsValidPoint(Head(curveData))
       THEN <<ClampPoint(Head(curveData))>> \o ValidPoints(Tail(curveData))
       ELSE ValidPoints(Tail(curveData))

\* the result that keeps a curve without points
CurveResultKeepingEmpty(validPoints) == Arr(validPoints)

\* what getToneCurve returns once the valid points are collected
CurveResult(validPoints) == IF Len(validPoints) > 0 THEN Arr(validPoints) ELSE Undefined

\* getToneCurve that hands back what the input holds under the key
getToneCurvePassing(rawSettings, key) == GetKey(rawSettings, key)

getToneCurve(rawSettings, key) ==
  IF ~HasKey(rawSettings, key)
  THEN Undefined
  ELSE LET curveData == GetKey(rawSettings, key)
       IN  IF ~IsArray(curveData) THEN Undefined ELSE CurveResult(ValidPoints(curveData.a))

\* the gate that lets every string through
GatePassingStrings(version) == IF version.t = "string" THEN version ELSE Str("13.3")

\* the gate that drops an unknown version instead of replacing it
GateDroppingUnknown(version) ==
  IF version.t = "string" /\ version.s \in KnownProcessVersions THEN version ELSE Undefined

\* the gate on normalized.processVersion
GateProcessVersion(version) ==
  IF version.t = "string" /\ version.s \in KnownProcessVersions THEN version ELSE Str("13.3")

\* the value assigned to normalized[call.key]
FieldValue(rawSettings, call) ==
  LET got == CASE call.fn = "getNumber" ->
                    getNumber(rawSettings, call.key, call.min, call.max, call.def, call.allowFloats)
               [] call.fn = "getString" -> getString(rawSettings, call.key, call.def)
               [] call.fn = "getToneCurve" -> getToneCurve(rawSettings, call.key)
  IN  IF call.key = "processVersion" THEN GateProcessVersion(got) ELSE got

\* the guard without the test for null
IsNotObjectForgettingNull(rawSettings) == TypeOf(rawSettings) # "object"

\* the top-level guard: the input is not an object, or is null
IsNotObject(rawSettings) == TypeOf(rawSettings) # "object" \/ rawSettings = Null

\* the assignments that stop at the first field whose input is not of the field's type
AssignedAborting(rawSettings) ==
  LET calls == FieldCalls
      bad(i) == /\ HasKey(rawSettings, calls[i].key)
                /\ TypeOf(GetKey(rawSettings, calls[i].key))
                     # (CASE calls[i].fn = "getNumber" -> "number"
                          [] calls[i].fn = "getString" -> "string"
                          [] calls[i].fn = "getToneCurve" -> "object")
  IN  [i \in 1..Len(calls) |->
         <<calls[i].key,
           IF \E j \in 1..i : bad(j) THEN Undefined ELSE FieldValue(rawSettings, calls[i])>>]

\* normalized, after all the assignments and before the clean-up
Assigned(rawSettings) ==
  [i \in 1..Len(FieldCalls) |-> <<FieldCalls[i].key, FieldValue(rawSettings, FieldCalls[i])>>]

IsDefinedEntry(entry) == entry[2] # Undefined

\* the clean-up that deletes nothing
CleanUpNothing(props) == props

IsTruthyEntry(entry) == entry[2] \notin {Undefined, Whole(0), Str("")}

\* the clean-up that deletes every property whose value is falsy
CleanUpFalsy(props) == SelectSeq(props, IsTruthyEntry)

\* the clean-up of undefined properties
CleanUp(props) == SelectSeq(props, IsDefinedEntry)

validateAndNormalizeAISettings(rawSettings) ==
  IF IsNotObject(rawSettings)
  THEN Obj(<< <<"processVersion", Str("13.3")>> >>)
  ELSE Obj(CleanUp(Assigned(rawSettings)))

\* ------------------------------------------------------------------------
\* convertSettingsToXMP
\* ------------------------------------------------------------------------
\* key.startsWith(prefix)
StartsWith(key, prefix) == Len(key) >= Len(prefix) /\ SubSeq(key, 1, Len(prefix)) = prefix

\* the truthiness of a value, as || and if test it
Truthy(v) ==
  CASE v.t \in {"undefined", "null"} -> FALSE
    [] v.t = "boolean" -> v.n = 1
    [] v.t = "number" -> v.s \in {"Infinity", "-Infinity"} \/ (v.s = "finite" /\ v.n # 0)
    [] v.t = "string" -> v.s # ""
    [] OTHER -> TRUE

\* String(v) of a number: the shortest decimal form
NumberToString(v) ==
  IF v.s # "finite"
  THEN v.s
  ELSE LET abs == IF v.n < 0 THEN -v.n ELSE v.n
           whole == ToString(abs \div 10)
           digits == IF abs % 10 = 0 THEN whole ELSE whole \o "." \o ToString(abs % 10)
       IN  IF v.n < 0 THEN "-" \o digits ELSE digits

RECURSIVE ToStr(_)
RECURSIVE JoinElements(_)
\* Array.prototype.join(",") as String(array) uses it
JoinElements(a) ==
  IF a = <<>>
  THEN ""
  ELSE LET first == IF Head(a).t \in {"undefined", "null"} THEN "" ELSE ToStr(Head(a))
       IN  IF Len(a) = 1 THEN first ELSE first \o "," \o JoinElements(Tail(a))

\* String(v), and v inside a template literal
ToStr(v) ==
  CASE v.t = "undefined" -> "undefined"
    [] v.t = "null" -> "null"
    [] v.t = "boolean" -> (IF v.n = 1 THEN "true" ELSE "false")
    [] v.t = "number" -> NumberToString(v)
    [] v.t = "string" -> v.s
    [] v.t = "array" -> JoinElements(v.a)
    [] v.t = "object" -> "[object Object]"

\* the fixed part of tagMap, in the order of the literal
FixedTags == <<
  <<"exposure", "Exposure2012">>,
  <<"contrast", "Contrast2012">>,
  <<"highlights", "Highlights2012">>,
  <<"shadows", "Shadows2012">>,
  <<"whites", "Whites2012">>,
  <<"blacks", "Blacks2012">>,
  <<"texture", "Texture">>,
  <<"clarity", "Clarity2012">>,
  <<"dehaze", "Dehaze">>,
  <<"vibrance", "Vibrance">>,
  <<"saturation", "Saturation">>,
  <<"temperature", "Temperature">>,
  <<"tint", "Tint">>,
  <<"toneCurvePV", "ToneCurvePV">>,
  <<"toneCurve", "ToneCurvePV2012">>,
  <<"toneCurveRed", "ToneCurvePV2012Red">>,
  <<"toneCurveGreen", "ToneCurvePV2012Green">>,
  <<"toneCurveBlue", "ToneCurvePV2012Blue">>,
  <<"sharpeningAmount", "Sharpness">>,
  <<"sharpeningRadius", "SharpenRadius">>,
  <<"sharpeningDetail", "SharpenDetail">>,
  <<"sharpeningMasking", "SharpenEdgeMasking">>,
  <<"grainAmount", "GrainAmount">>,
  <<"grainSize", "GrainSize">>,
  <<"grainFrequency", "GrainFrequency">>,
  <<"colorGradeShadowHue", "ColorGradeShadowHue">>,
  <<"colorGradeShadowSat", "ColorGradeShadowSat">>,
  <<"colorGradeShadowLum", "ColorGradeShadowLum">>,
  <<"colorGradeMidtoneHue", "ColorGradeMidtoneHue">>,
  <<"colorGradeMidtoneSat", "ColorGradeMidtoneSat">>,
  <<"colorGradeMidtoneLum", "ColorGradeMidtoneLum">>,
  <<"colorGradeHighlightHue", "ColorGradeHighlightHue">>,
  <<"colorGradeHighlightSat", "ColorGradeHighlightSat">>,
  <<"colorGradeHighlightLum", "ColorGradeHighlightLum">>,
  <<"colorGradeGlobalHue", "ColorGradeGlobalHue">>,
  <<"colorGradeGlobalSat", "ColorGradeGlobalSat">>,
  <<"colorGradeGlobalLum", "ColorGradeGlobalLum">>,
  <<"colorGradeBlending", "ColorGradeBlending">>,
  <<"colorGradeBalance", "ColorGradeBalance">>,
  <<"splitToningHighlightHue", "SplitToningHighlightHue">>,
  <<"splitToningHighlightSaturation", "SplitToningHighlightSaturation">>,
  <<"splitToningShadowHue", "SplitToningShadowHue">>,
  <<"splitToningShadowSaturation", "SplitToningShadowSaturation">>,
  <<"splitToningBalance", "SplitToningBalance">>,
  <<"cameraProfile", "CameraProfile">> >>

HslTagPrefixes == <<"HueAdjustment", "SaturationAdjustment", "LuminanceAdjustment">>

\* the tags added to tagMap by the loop over HSL_COLORS
HslTags ==
  [i \in 1..(3 * Len(HSL_COLORS)) |->
     <<HslPrefixes[((i - 1) % 3) + 1] \o HSL_COLORS[((i - 1) \div 3) + 1],
       HslTagPrefixes[((i - 1) % 3) + 1] \o HSL_COLORS[((i - 1) \div 3) + 1]>>]

RECURSIVE TableOf(_)
\* the object that holds pairs[i][2] under pairs[i][1]
TableOf(pairs) ==
  IF Len(pairs) = 1
  THEN Head(pairs)[1] :> Head(pairs)[2]
  ELSE (Head(pairs)[1] :> Head(pairs)[2]) @@ TableOf(Tail(pairs))

tagMap == TableOf(FixedTags \o HslTags)

\* the keys that tagMap has an entry for
TagKeys == DOMAIN tagMap

\* the property names that tagMap, an object literal, inherits from Object.prototype
InheritedKeys == {"constructor", "toString", "valueOf", "hasOwnProperty"}

\* the text of an inherited function when it is joined to 'crs:'
InheritedText(key) ==
  "function " \o (IF key = "constructor" THEN "Object" ELSE key) \o "() { [native code] }"

\* tagMap[key]: the entry of the table, an inherited function as its text, "" when the
\* lookup gives undefined
TagFor(key) ==
  IF key \in TagKeys
  THEN tagMap[key]
  ELSE IF key \in InheritedKeys THEN InheritedText(key) ELSE ""

\* root.ele('crs:' + tag).txt(text)
TextElement(tag, text) == [tag |-> tag, kind |-> "text", text |-> text, seqs |-> <<>>]

\* root.ele('crs:' + tag) holding the rdf:Seq children seqs, each a sequence of rdf:li texts
ContainerElement(tag, seqs) == [tag |-> tag, kind |-> "container", text |-> "", seqs |-> seqs]

\* v[i] for i from 0: an element of an array, a character of a string, undefined otherwise
Index(v, i) ==
  IF IsArray(v) /\ i < Len(v.a)
  THEN v.a[i + 1]
  ELSE IF v.t = "string" /\ i < Len(v.s) THEN Str(SubSeq(v.s, i + 1, i + 1)) ELSE Undefined

\* `${point[0]}, ${point[1]}`
PointText(point) == ToStr(Index(point, 0)) \o ", " \o ToStr(Index(point, 1))

\* the element of a curve written as the text of the array
FieldElementAsText(key, value, tagName) == TextElement(tagName, ToStr(value))

\* the element written for one mapped field
FieldElement(key, value, tagName) ==
  IF StartsWith(key, "toneCurve") /\ key # "toneCurvePV" /\ IsArray(value)
  THEN ContainerElement(tagName,
         IF Len(value.a) > 0 THEN <<[i \in 1..Len(value.a) |-> PointText(value.a[i])]>> ELSE <<>>)
  ELSE TextElement(tagName, ToStr(value))

\* tagName for each entry of the loop over Object.entries(settings), "" for an entry the
\* first guard skips: its value is undefined or tagMap has nothing under its key
TagsOf(entries) ==
  [i \in 1..Len(entries) |->
     IF entries[i][2] = Undefined THEN "" ELSE TagFor(entries[i][1])] \o <<>>

\* seenXmpTags when the loop reaches entry i: the tags of the elements written so far,
\* which are the tags of the entries ahead of i that passed the first guard
SeenAt(tags, i) == {tags[j] : j \in 1..(i - 1)} \ {""}

\* the loop writes an element for entry i
IsWritten(tags, i) == tags[i] # "" /\ tags[i] \notin SeenAt(tags, i)

RECURSIVE EmitRange(_, _, _, _)
\* the elements the loop writes for the entries lo..hi, in order
EmitRange(entries, tags, lo, hi) ==
  IF lo > hi
  THEN <<>>
  ELSE IF lo = hi
  THEN IF IsWritten(tags, lo)
       THEN <<FieldElement(entries[lo][1], entries[lo][2], tags[lo])>>
       ELSE <<>>
  ELSE EmitRange(entries, tags, lo, (lo + hi) \div 2)
         \o EmitRange(entries, tags, ((lo + hi) \div 2) + 1, hi)

\* the elements of the mapped fields written in the order of tagMap's keys
EmitFieldsInTableOrder(entries) ==
  LET table == FixedTags \o HslTags
      held(key) == IF \E i \in 1..Len(entries) : entries[i][1] = key
                   THEN entries[CHOOSE i \in 1..Len(entries) : entries[i][1] = key][2]
                   ELSE Undefined
      sorted == [i \in 1..Len(table) |-> <<table[i][1], held(table[i][1])>>]
  IN  EmitRange(sorted, TagsOf(sorted), 1, Len(sorted))

\* the elements of the mapped fields: the loop over Object.entries(settings)
EmitFields(entries) == EmitRange(entries, TagsOf(entries), 1, Len(entries))

\* the metadata with the normalizer's default version in place of the legacy one
MetadataElementsModernDefault(settings, presetName) ==
  << TextElement("PresetType", "Normal"),
     TextElement("PresetName", ToStr(presetName)),
     TextElement("ProcessVersion",
                 IF Truthy(GetKey(settings, "processVersion"))
                 THEN ToStr(GetKey(settings, "processVersion"))
                 ELSE "13.3") >>

\* PresetType, PresetName and ProcessVersion
MetadataElements(settings, presetName) ==
  << TextElement("PresetType", "Normal"),
     TextElement("PresetName", ToStr(presetName)),
     TextElement("ProcessVersion",
                 IF Truthy(GetKey(settings, "processVersion"))
                 THEN ToStr(GetKey(settings, "processVersion"))
                 ELSE "6.7") >>

\* HasToneCurve and HasSettings
SummaryFlags(settings) ==
  (IF \/ Truthy(GetKey(settings, "toneCurvePV"))
      \/ Truthy(GetKey(settings, "toneCurve"))
      \/ Truthy(GetKey(settings, "toneCurveRed"))
      \/ Truthy(GetKey(settings, "toneCurveGreen"))
      \/ Truthy(GetKey(settings, "toneCurveBlue"))
   THEN <<TextElement("HasToneCurve", "True")>>
   ELSE <<>>)
  \o
  (IF \E i \in 1..Len(settings.a) : StartsWith(settings.a[i][1], "hsl")
   THEN <<TextElement("HasSettings", "True")>>
   ELSE <<>>)

\* presetName: string = 'AI Generated Preset'
DefaultPresetName(presetName) ==
  IF presetName = Undefined THEN Str("AI Generated Preset") ELSE presetName

convertSettingsToXMP(settings, presetName) ==
  EmitFields(settings.a)
    \o MetadataElements(settings, DefaultPresetName(presetName))
    \o SummaryFlags(settings)

\* a property read that raises a TypeError: v is undefined or null
ReadThrows(v) == v.t \in {"undefined", "null"}

\* convertSettingsToXMP raises a TypeError: Object.entries of undefined or null, or
\* point[0] on a point that is undefined or null, in a curve that is written
convertThrows(settings) ==
  \/ ReadThrows(settings)
  \/ /\ settings.t = "object"
     /\ \E i \in 1..Len(settings.a) :
          LET key == settings.a[i][1]
              value == settings.a[i][2]
          IN  /\ value # Undefined
              /\ TagFor(key) # ""
              /\ StartsWith(key, "toneCurve") /\ key # "toneCurvePV" /\ IsArray(value)
              /\ \E j \in 1..Len(value.a) : ReadThrows(value.a[j])

\* convertSettingsToXMP hands the markup builder an element name that is the text of a
\* function: the builder may write the element or refuse the name
WritesInheritedName(settings) ==
  /\ settings.t = "object"
  /\ \E i \in 1..Len(settings.a) :
       settings.a[i][2] # Undefined /\ settings.a[i][1] \in InheritedKeys

\* ------------------------------------------------------------------------
\* formatSettingsForDisplay
\* ------------------------------------------------------------------------
LowerCase == "abcdefghijklmnopqrstuvwxyz"

UpperCase == "ABCDEFGHIJKLMNOPQRSTUVWXYZ"

\* c.toUpperCase() for a single character
ToUpperCase(c) ==
  IF \E i \in 1..Len(LowerCase) : SubSeq(LowerCase, i, i) = c
  THEN LET i == CHOOSE j \in 1..Len(LowerCase) : SubSeq(LowerCase, j, j) = c
       IN  SubSeq(UpperCase, i, i)
  ELSE c

\* s.substring(n), s.slice(n)
Substring(s, n) == SubSeq(s, n + 1, Len(s))

\* s.charAt(0).toUpperCase() + s.slice(1)
Capitalize(s) == IF s = "" THEN "" ELSE ToUpperCase(SubSeq(s, 1, 1)) \o Substring(s, 1)

IsUpperCase(c) == \E i \in 1..Len(UpperCase) : SubSeq(UpperCase, i, i) = c

RECURSIVE SpaceCapitals(_)
\* s.replace(/([A-Z])/g, ' $1')
SpaceCapitals(s) ==
  IF s = ""
  THEN ""
  ELSE LET c == SubSeq(s, 1, 1)
       IN  (IF IsUpperCase(c) THEN " " \o c ELSE c) \o SpaceCapitals(Substring(s, 1))

\* formattedKey of a key that starts with 'hsl'
HslLabel(key) ==
  LET mainPart == Substring(key, 3)
      type == IF StartsWith(mainPart, "Hue") THEN "Hue"
              ELSE IF StartsWith(mainPart, "Saturation") THEN "Saturation"
              ELSE IF StartsWith(mainPart, "Luminance") THEN "Luminance"
              ELSE ""
      color == IF type = "" THEN "" ELSE Substring(mainPart, Len(type))
  IN  "HSL " \o type \o " " \o Capitalize(color)

\* formattedKey of a curve key
CurveLabel(key) == "Tone Curve " \o Capitalize(Substring(key, 9))

\* formattedKey of a key that starts with 'colorGrade'
ColorGradeLabel(key) ==
  LET part == Substring(key, 10)
      section == IF StartsWith(part, "Shadow") THEN "Shadows"
                 ELSE IF StartsWith(part, "Midtone") THEN "Midtones"
                 ELSE IF StartsWith(part, "Highlight") THEN "Highlights"
                 ELSE IF StartsWith(part, "Global") THEN "Global"
                 ELSE IF part = "Blending" THEN "Color Grading"
                 ELSE IF part = "Balance" THEN "Color Grading"
                 ELSE ""
      property == IF StartsWith(part, "Shadow") THEN Substring(part, 6)
                  ELSE IF StartsWith(part, "Midtone") THEN Substring(part, 7)
                  ELSE IF StartsWith(part, "Highlight") THEN Substring(part, 9)
                  ELSE IF StartsWith(part, "Global") THEN Substring(part, 6)
                  ELSE IF part = "Blending" THEN "Blending"
                  ELSE IF part = "Balance" THEN "Balance"
                  ELSE ""
  IN  IF section # ""
      THEN "Color Grading " \o section \o " " \o Capitalize(property)
      ELSE "Color Grading " \o Capitalize(part)

\* `(${p[0]},${p[1]})`
DisplayPoint(p) == "(" \o ToStr(Index(p, 0)) \o "," \o ToStr(Index(p, 1)) \o ")"

RECURSIVE JoinWith(_, _)
\* texts.join(separator)
JoinWith(texts, separator) ==
  IF texts = <<>>
  THEN ""
  ELSE IF Len(texts) = 1
  THEN Head(texts)
  ELSE Head(texts) \o separator \o JoinWith(Tail(texts), separator)

\* the key takes the curve branch
IsCurveBranch(key) ==
  ~StartsWith(key, "hsl") /\ StartsWith(key, "toneCurve") /\ key # "toneCurvePV"

\* the line appended to displayString for one entry, without its line feed
DisplayLine(key, value) ==
  IF StartsWith(key, "hsl")
  THEN "- " \o HslLabel(key) \o ": " \o ToStr(value)
  ELSE IF IsCurveBranch(key)
  THEN "- " \o CurveLabel(key) \o ": "
         \o JoinWith([i \in 1..Len(value.a) |-> DisplayPoint(value.a[i])], ", ")
  ELSE IF StartsWith(key, "colorGrade")
  THEN "- " \o ColorGradeLabel(key) \o ": " \o ToStr(value)
  ELSE "- " \o SpaceCapitals(Capitalize(key)) \o ": " \o ToStr(value)

\* formatSettingsForDisplay raises a TypeError: Object.entries of undefined or null,
\* points.map on a value that is not an array, or p[0] on a point that is undefined or null
formatThrows(settings) ==
  \/ ReadThrows(settings)
  \/ /\ settings.t = "object"
     /\ \E i \in 1..Len(settings.a) :
          LET key == settings.a[i][1]
              value == settings.a[i][2]
          IN  /\ value # Undefined
              /\ IsCurveBranch(key)
              /\ \/ ~IsArray(value)
                 \/ \E j \in 1..Len(value.a) : ReadThrows(value.a[j])

IsDisplayed(entry) == entry[2] # Undefined

\* the lines of displayString: the header, then one line per entry that is not undefined
formatSettingsForDisplay(settings) ==
  LET shown == SelectSeq(settings.a, IsDisplayed)
  IN  <<"Suggested Lightroom Settings:">>
        \o [i \in 1..Len(shown) |-> DisplayLine(shown[i][1], shown[i][2])]

\* ------------------------------------------------------------------------
\* The inputs that are tried
\* ------------------------------------------------------------------------
\* the longest curve that is enumerated
MaxPoints == 2

\* what is not a number: the values a numeric key is tried with besides numbers
NonNumbers == {Str("high"), Str("3"), Bool(TRUE), Null, Obj(<<>>), Arr(<<Whole(1)>>), NaN}

\* the numbers a numeric key is tried with: around both ends of its range, whole and fractional
NumbersFor(call) ==
  {Num(call.min.n - 10), Num(call.min.n - 5), call.min, Num(call.min.n + 5),
   Num(call.max.n - 10), call.max, Num(call.max.n + 5), Num(call.max.n + 10),
   NegInf, PosInf}

StringInputs ==
  {Str("7.0"), Str("13.3"), Str("6.7"), Str("16.0"), Str("2012"), Str(""), Str("Camera Vivid"),
   Whole(13), Num(67), Bool(TRUE), Null, Obj(<<>>), Arr(<<Str("13.3")>>)}

\* candidate curve points, well formed and not
PointInputs ==
  {Arr(<<Whole(0), Whole(0)>>), Arr(<<Whole(300), Whole(-10)>>), Arr(<<Num(5), Num(2007)>>),
   Arr(<<PosInf, NegInf>>), Arr(<<Str("x"), Whole(1)>>), Arr(<<NaN, Whole(0)>>),
   Arr(<<Whole(1), Whole(2), Whole(3)>>), Str("0,0")}

RECURSIVE SeqsUpTo(_, _)
SeqsUpTo(S, n) ==
  IF n = 0
  THEN {<<>>}
  ELSE LET shorter == SeqsUpTo(S, n - 1)
       IN  shorter \cup {Append(q, x) : q \in shorter, x \in S}

CurveInputs ==
  {Arr(q) : q \in SeqsUpTo(PointInputs, MaxPoints)} \cup {Str("curve"), Whole(1), Null, Obj(<<>>)}

\* the values tried under the key of one field
InputsFor(call) ==
  CASE call.fn = "getNumber" -> NumbersFor(call) \cup NonNumbers
    [] call.fn = "getString" -> StringInputs
    [] call.fn = "getToneCurve" -> CurveInputs

\* what every key of a full input holds: a text, a value above every range, a valid value
Profiles == {"text", "above", "valid"}

ProfileValue(call, profile) ==
  CASE profile = "text" -> Str("high")
    [] profile = "above" ->
         (CASE call.fn = "getNumber" -> Num(call.max.n + 10)
            [] call.fn = "getString" -> Whole(7)
            [] call.fn = "getToneCurve" -> Arr(<<Arr(<<Whole(999), Whole(999)>>)>>))
    [] profile = "valid" ->
         (CASE call.fn = "getNumber" -> call.min
            [] call.fn = "getString" -> (IF call.key = "processVersion" THEN Str("6.7") ELSE Str("Custom"))
            [] call.fn = "getToneCurve" -> Arr(<<Arr(<<Whole(0), Whole(0)>>), Arr(<<Whole(255), Whole(255)>>)>>))

\* the object that holds value under key and nothing else
SingleKeyObject(key, value) == Obj(<< <<key, value>> >>)

\* the object that holds under every field key what the profile says
FullObject(profile) ==
  Obj([i \in 1..Len(FieldCalls) |-> <<FieldCalls[i].key, ProfileValue(FieldCalls[i], profile)>>])

\* an unrecognized key
UnknownKey == "vignette"

\* the object that holds an unrecognized key, a valid value under the key of field i and an
\* anomaly under every other field key
MixedObject(i) ==
  Obj(<< <<UnknownKey, Str("high")>> >>
      \o [j \in 1..Len(FieldCalls) |->
            <<FieldCalls[j].key,
              ProfileValue(FieldCalls[j],
                           IF j = i THEN "valid" ELSE IF j % 2 = 0 THEN "text" ELSE "above")>>])

\* the names a preset is serialized under; Undefined is the call without a name
PresetNames == {Undefined, Str("IMG_0042.jpg")}

\* the inputs of the spec's examples
ExampleEndToEnd ==
  Obj(<< <<"exposure", Whole(10)>>, <<"contrast", Str("high")>>,
         <<"toneCurve", Arr(<<Arr(<<Whole(0), Whole(0)>>), Arr(<<Whole(999), Whole(999)>>)>>)>> >>)

ExampleCurve ==
  Obj(<< <<"toneCurve", Arr(<<Arr(<<Whole(0), Whole(0)>>), Arr(<<Str("x"), Whole(1)>>),
                              Arr(<<Whole(300), Whole(-10)>>), Arr(<<Whole(128), Whole(128)>>)>>)>> >>)

NotObjectInputs == {Undefined, Null, Whole(42), NaN, Str("settings"), Str(""), Bool(TRUE), Bool(FALSE)}

ArrayInputs == {Arr(<<>>), Arr(<<Whole(1), Str("exposure")>>)}

ObjectInputs ==
  {Obj(<<>>), ExampleEndToEnd, ExampleCurve}
    \cup UNION {{SingleKeyObject(FieldCalls[i].key, value) : value \in InputsFor(FieldCalls[i])} :
                i \in 1..Len(FieldCalls)}
    \cup {SingleKeyObject(UnknownKey, value) : value \in NonNumbers}
    \cup {FullObject(profile) : profile \in Profiles}
    \cup {MixedObject(i) : i \in 1..Len(FieldCalls)}

Inputs == NotObjectInputs \cup ArrayInputs \cup ObjectInputs

\* ------------------------------------------------------------------------
\* State and steps
\* ------------------------------------------------------------------------
VARIABLES
  rawSettings,   \* the untyped input
  pc,            \* "input", "normalized", "renormalized", "serialized", "displayed"
  normalized,    \* the settings record: returned by the normalizer, or handed in by a caller
  renormalized,  \* the record returned by the normalizer for normalized
  xmp,           \* the elements under rdf:Description, in document order
  display,       \* the lines of the display string
  thrown,        \* the error raised by the last call, "" when it returned
  suppliedName,  \* the preset name convertSettingsToXMP was called with, undefined for none
  calls,         \* the calls of convertSettingsToXMP made one after another, and the Set
                 \* that the last of them held in seenXmpTags
  formData,      \* the form data of the request that POST handles
  server,        \* POST: its locals, the temp directory on disk and the response it chose
  page           \* HomePage: its useState values, and the requests it has in flight

vars ==
  <<rawSettings, pc, normalized, renormalized, xmp, display, thrown, suppliedName, calls,
    formData, server, page>>

\* a File of a form: its name and its size in bytes
File(name, size) == [t |-> "file", n |-> size, s |-> name, a |-> <<>>]

\* a form without fields
NoFormData == [primaryPhoto |-> Null, inspirationPhotos |-> <<>>]

\* POST before its first statement: let requestTmpDir = null, nothing on disk, no response
NoRequest ==
  [requestTmpDir |-> Null, dirExists |-> FALSE, files |-> 0, primaryPhotoOriginalName |-> Undefined,
   aiCalls |-> 0, aiResponseText |-> Undefined, rendered |-> FALSE, cleanups |-> 0,
   status |-> 0, body |-> Undefined]

\* the useState values of HomePage at its first render
FirstRender(variant) ==
  [variant |-> variant, primaryPhoto |-> Null, inspirationPhotos |-> <<>>,
   originalImageUrl |-> Null, isLoading |-> FALSE, feedbackMessage |-> "",
   generatedPresets |-> IF variant = "page.tsx" THEN Arr(<<>>) ELSE Null,
   inFlight |-> 0, sent |-> 0, threw |-> FALSE]

\* no call of a batch has been made
NoCalls == [history |-> <<>>, seenXmpTags |-> {}]

Init ==
  /\ rawSettings \in Inputs
  /\ pc = "input"
  /\ normalized = Undefined
  /\ renormalized = Undefined
  /\ xmp = <<>>
  /\ display = <<>>
  /\ thrown = ""
  /\ suppliedName = Undefined
  /\ calls = NoCalls
  /\ formData = NoFormData
  /\ server = NoRequest
  /\ page = FirstRender("page.tsx")

\* const validatedSettings = validateAndNormalizeAISettings(rawParsedSettings)
Normalize ==
  /\ pc = "input"
  /\ normalized' = validateAndNormalizeAISettings(rawSettings)
  /\ pc' = "normalized"
  /\ UNCHANGED <<rawSettings, renormalized, xmp, display, thrown, suppliedName, calls, formData, server, page>>

\* the normalizer applied to a record it returned
Renormalize ==
  /\ pc = "normalized"
  /\ renormalized' = validateAndNormalizeAISettings(normalized)
  /\ pc' = "renormalized"
  /\ UNCHANGED <<rawSettings, normalized, xmp, display, thrown, suppliedName, calls, formData, server, page>>

\* const xmpContent = convertSettingsToXMP(aiGeneratedSettings, presetName)
Serialize ==
  /\ pc = "normalized"
  /\ \E presetName \in PresetNames, refused \in BOOLEAN :
       /\ suppliedName' = presetName
       /\ IF convertThrows(normalized)
          THEN xmp' = <<>> /\ thrown' = "TypeError"
          ELSE IF refused /\ WritesInheritedName(normalized)
          THEN xmp' = <<>> /\ thrown' = "InvalidCharacterError"
          ELSE xmp' = convertSettingsToXMP(normalized, presetName) /\ thrown' = ""
  /\ pc' = "serialized"
  /\ UNCHANGED <<rawSettings, normalized, renormalized, display, calls, formData, server, page>>

\* const displayableSettings = formatSettingsForDisplay(aiGeneratedSettings)
Display ==
  /\ pc = "normalized"
  /\ IF formatThrows(normalized)
     THEN display' = <<>> /\ thrown' = "TypeError"
     ELSE display' = formatSettingsForDisplay(normalized) /\ thrown' = ""
  /\ pc' = "displayed"
  /\ UNCHANGED <<rawSettings, normalized, renormalized, xmp, suppliedName, calls, formData, server, page>>

Next == Normalize \/ Renormalize \/ Serialize \/ Display

Spec == Init /\ [][Next]_vars

\* ------------------------------------------------------------------------
\* The serializer called on its own: convertSettingsToXMP and formatSettingsForDisplay are
\* exported, and LightroomSettings allows every key ([key: string]: unknown)
\* ------------------------------------------------------------------------
TwoPoints == Arr(<<Arr(<<Whole(0), Whole(0)>>), Arr(<<Whole(255), Whole(255)>>)>>)

\* records of one field
FieldRecords ==
  {SingleKeyObject(FieldCalls[i].key, ProfileValue(FieldCalls[i], "valid")) :
     i \in 1..Len(FieldCalls)}
    \cup {SingleKeyObject("exposure", Num(5)), SingleKeyObject("toneCurveRed", TwoPoints),
          SingleKeyObject("toneCurvePV", Str("2012")), SingleKeyObject("processVersion", Str("13.3")),
          SingleKeyObject("sharpeningRadius", Num(15))}

\* records at the edges of the type: an empty curve, keys that are present and undefined,
\* keys outside the fields, an empty version
EdgeRecords ==
  {Obj(<<>>),
   SingleKeyObject("toneCurve", Arr(<<>>)),
   SingleKeyObject("toneCurveBlue", Arr(<<>>)),
   SingleKeyObject("toneCurve", Undefined),
   SingleKeyObject("hslHueRed", Undefined),
   SingleKeyObject("hslFoo", Whole(1)),
   SingleKeyObject("hsl", Str("on")),
   SingleKeyObject(UnknownKey, Whole(3)),
   SingleKeyObject("constructor", Whole(1)),
   SingleKeyObject("toString", Str("text")),
   SingleKeyObject("processVersion", Str("")),
   SingleKeyObject("toneCurvePV", Str("")),
   Obj(<< <<"exposure", Undefined>>, <<"contrast", Whole(5)>> >>),
   Obj(<< <<"contrast", Whole(5)>>, <<"exposure", Whole(1)>> >>),
   Obj(<< <<"processVersion", Str("11.0")>>, <<"hslLuminanceBlue", Whole(-20)>>,
          <<UnknownKey, Whole(3)>>, <<"toneCurveGreen", TwoPoints>>,
          <<"cameraProfile", Str("Camera Vivid")>>, <<"exposure", Num(-15)>> >>),
   Obj(<< <<"toneCurveBlue", TwoPoints>>, <<"toneCurveRed", Arr(<<Arr(<<Whole(10), Whole(20)>>)>>)>>,
          <<"toneCurve", Arr(<<>>)>>, <<"toneCurvePV", Str("2012")>>, <<"exposure", Num(5)>> >>)}

\* records that break the declared type of a curve
IllTypedRecords ==
  {SingleKeyObject("toneCurve", Arr(<<Null>>)),
   SingleKeyObject("toneCurveRed", Str("abc")),
   SingleKeyObject("toneCurveGreen", Arr(<<Str("0,0")>>))}

\* records that the normalizer returns
NormalizedRecords ==
  {validateAndNormalizeAISettings(input) :
     input \in {Null, Obj(<<>>), ExampleEndToEnd, ExampleCurve} \cup {FullObject(p) : p \in Profiles}}

Records == FieldRecords \cup EdgeRecords \cup IllTypedRecords \cup NormalizedRecords

\* a caller holds a record
SerializerInit ==
  /\ rawSettings = Undefined
  /\ pc = "normalized"
  /\ normalized \in Records
  /\ renormalized = Undefined
  /\ xmp = <<>>
  /\ display = <<>>
  /\ thrown = ""
  /\ suppliedName = Undefined
  /\ calls = NoCalls
  /\ formData = NoFormData
  /\ server = NoRequest
  /\ page = FirstRender("page.tsx")

SerializerNext == Serialize \/ Display

SerializerSpec == SerializerInit /\ [][SerializerNext]_vars

\* ------------------------------------------------------------------------
\* A batch of calls of convertSettingsToXMP, one per photo
\* ------------------------------------------------------------------------
\* the most calls of one batch
MaxCalls == 3

\* the records of a batch
BatchRecords ==
  {SingleKeyObject("exposure", Num(5)),
   Obj(<< <<"toneCurveBlue", TwoPoints>>, <<"hslHueRed", Whole(10)>>, <<"exposure", Whole(1)>> >>),
   Obj(<< <<"processVersion", Str("11.0")>>, <<"toneCurvePV", Str("2012")>>, <<"contrast", Whole(5)>> >>)}

\* a Set that carries over what the last call left in it
KeptSet(previous) == previous

\* const seenXmpTags = new Set<string>(): empty, whatever an earlier call left in its own
NewSet(previous) == {}

\* the elements whose tag is not in seen, in their order
Unseen(elements, seen) ==
  LET keep == {i \in 1..Len(elements) : elements[i].tag \notin seen}
  IN  [k \in 1..Cardinality(keep) |->
         elements[CHOOSE i \in keep : Cardinality({j \in keep : j <= i}) = k]]

\* the document of a call whose seenXmpTags starts as seen
ConvertStartingWith(seen, settings, presetName) ==
  Unseen(EmitFields(settings.a), seen)
    \o MetadataElements(settings, DefaultPresetName(presetName))
    \o SummaryFlags(settings)

\* the tags seenXmpTags holds when the call returns
SeenAfter(seen, settings) ==
  seen \cup {EmitFields(settings.a)[i].tag : i \in 1..Len(EmitFields(settings.a))}

BatchInit ==
  /\ rawSettings = Undefined
  /\ pc = "batch"
  /\ normalized = Undefined
  /\ renormalized = Undefined
  /\ xmp = <<>>
  /\ display = <<>>
  /\ thrown = ""
  /\ suppliedName = Undefined
  /\ calls = NoCalls
  /\ formData = NoFormData
  /\ server = NoRequest
  /\ page = FirstRender("page.tsx")

\* one more call of convertSettingsToXMP(settings, presetName); the function is synchronous,
\* so calls do not overlap
Convert ==
  /\ pc = "batch"
  /\ Len(calls.history) < MaxCalls
  /\ \E settings \in BatchRecords, presetName \in PresetNames :
       LET seen == NewSet(calls.seenXmpTags)
       IN  calls' = [history |-> Append(calls.history,
                                       [settings |-> settings,
                                        presetName |-> presetName,
                                        xmp |-> ConvertStartingWith(seen, settings, presetName),
                                        settingsAfter |-> settings]),
                    seenXmpTags |-> SeenAfter(seen, settings)]
  /\ UNCHANGED <<rawSettings, pc, normalized, renormalized, xmp, display, thrown, suppliedName,
                 formData, server, page>>

BatchNext == Convert

BatchSpec == BatchInit /\ [][BatchNext]_vars

\* ------------------------------------------------------------------------
\* POST /api/generate-preset
\* ------------------------------------------------------------------------
\* the most inspiration photos a form of the model holds
MaxInspiration == 2

\* const MAX_FILE_SIZE_BYTES = 20 * 1024 * 1024
MAX_FILE_SIZE_BYTES == 20 * 1024 * 1024

\* the characters that /[^a-zA-Z0-9._\-()\[\] ]/g leaves in place
NameCharacters == LowerCase \o UpperCase \o "0123456789._-()[] "

RECURSIVE KeepNameCharacters(_)
\* name.replace(/[^a-zA-Z0-9._\-()\[\] ]/g, '')
KeepNameCharacters(name) ==
  IF name = ""
  THEN ""
  ELSE LET c == SubSeq(name, 1, 1)
       IN  (IF \E i \in 1..Len(NameCharacters) : SubSeq(NameCharacters, i, i) = c THEN c ELSE "")
             \o KeepNameCharacters(Substring(name, 1))

\* primaryPhotoFile.name.replace(...).substring(0, 100)
primaryPhotoOriginalName(name) ==
  LET kept == KeepNameCharacters(name)
  IN  SubSeq(kept, 1, IF Len(kept) < 100 THEN Len(kept) ELSE 100)

\* path.join(BASE_TMP_DIR, requestId)
RequestTmpDir == Str("/tmp/ai_lightroom_presets/requestId")

\* a string of a response body whose content is kept as the elements or lines it was built from
Document(content) == [t |-> "string", n |-> 0, s |-> "", a |-> content]

\* new Date().toISOString()
ToISOString == "2025-05-01T12:00:00.000Z"

\* the body of the 200 response
OkBody(xmpContent, displayableSettings, originalName) ==
  Obj(<< <<"message", Str("Preset generated successfully.")>>,
         <<"xmp", Document(xmpContent)>>,
         <<"displaySettings", Document(displayableSettings)>>,
         <<"originalFilename", Str(originalName)>>,
         <<"generatedAt", Str(ToISOString)>> >>)

\* { error: message }
ErrorBody(message) == Obj(<< <<"error", Str(message)>> >>)

\* ---- generatePresetSettingsFromAI ----
\* the character of a code fence; a TLA+ string cannot hold the backtick, "~" stands for it
Fence == "~~~"

IsSpace(c) == c \in {" ", "\n", "\t"}

RECURSIVE TrimStart(_)
TrimStart(s) == IF s # "" /\ IsSpace(SubSeq(s, 1, 1)) THEN TrimStart(Substring(s, 1)) ELSE s

RECURSIVE TrimEnd(_)
TrimEnd(s) ==
  IF s # "" /\ IsSpace(SubSeq(s, Len(s), Len(s))) THEN TrimEnd(SubSeq(s, 1, Len(s) - 1)) ELSE s

\* s.trim()
Trim(s) == TrimEnd(TrimStart(s))

\* let jsonString = aiResponseText.trim(); a match of /^```(?:[^\n]+)?\n([\s\S]*?)```$/
\* replaces it by what lies between the first line break and the closing fence
StripCodeFence(aiResponseText) ==
  LET jsonString == Trim(aiResponseText)
      n == Len(jsonString)
      breaks == {k \in 4..(n - 3) : SubSeq(jsonString, k, k) = "\n"}
  IN  IF /\ n >= 7
         /\ StartsWith(jsonString, Fence)
         /\ SubSeq(jsonString, n - 2, n) = Fence
         /\ breaks # {}
      THEN LET k == CHOOSE b \in breaks : \A other \in breaks : b <= other
           IN  SubSeq(jsonString, k + 1, n - 3)
      ELSE jsonString

SyntaxError == [threw |-> TRUE, message |-> "Unexpected token in JSON", value |-> Undefined]

Parsed(value) == [threw |-> FALSE, message |-> "", value |-> value]

\* JSON.parse(jsonString), on the texts of the model
JSONParse(jsonString) ==
  LET text == Trim(jsonString)
  IN  CASE text = "{}" -> Parsed(Obj(<<>>))
        [] text = "null" -> Parsed(Null)
        [] text = "[]" -> Parsed(Arr(<<>>))
        [] text = "\"13.3\"" -> Parsed(Str("13.3"))
        [] text = "{\"contrast\":20}" -> Parsed(Obj(<< <<"contrast", Whole(20)>> >>))
        [] text = "{\"exposure\":0.5,\"processVersion\":\"6.7\"}" ->
             Parsed(Obj(<< <<"exposure", Num(5)>>, <<"processVersion", Str("6.7")>> >>))
        [] text = "{\"toneCurve\":[[0,0],[255,255]]}" ->
             Parsed(Obj(<< <<"toneCurve", Arr(<<Arr(<<Whole(0), Whole(0)>>),
                                                Arr(<<Whole(255), Whole(255)>>)>>)>> >>))
        [] OTHER -> SyntaxError

\* what response.text() returns
ResponseTexts ==
  {"{}", "null", "[]", "\"13.3\"",
   "{\"exposure\":0.5,\"processVersion\":\"6.7\"}",
   Fence \o "json\n{\"contrast\":20}\n" \o Fence,
   "\n {\"toneCurve\":[[0,0],[255,255]]} \n",
   Fence \o "{}" \o Fence,
   "Here are your settings: {}", "{exposure: 1}", ""}

\* what the environment of one call does: whether GOOGLE_API_KEY is set, whether the files
\* can be read, whether generateContent and response.text() return, and the text returned
AIEnvironments ==
  {[apiKey |-> FALSE, readable |-> TRUE, generated |-> TRUE, text |-> ""],
   [apiKey |-> TRUE, readable |-> FALSE, generated |-> TRUE, text |-> ""],
   [apiKey |-> TRUE, readable |-> TRUE, generated |-> FALSE, text |-> ""]}
    \cup {[apiKey |-> TRUE, readable |-> TRUE, generated |-> TRUE, text |-> t] : t \in ResponseTexts}

Thrown(message) == [threw |-> TRUE, message |-> message, value |-> Undefined]

\* the result of JSON.parse for the text of ai, when the call gets that far
ParsedResponse(ai) ==
  IF ai.apiKey /\ ai.readable /\ ai.generated
  THEN JSONParse(StripCodeFence(ai.text))
  ELSE SyntaxError

\* generatePresetSettingsFromAI that returns what JSON.parse gave it
generatePresetSettingsUnvalidated(ai) ==
  IF ~ai.apiKey
  THEN Thrown("Google API Key is missing. Set GOOGLE_API_KEY environment variable.")
  ELSE IF ~ai.readable
  THEN Thrown("Error during AI preset generation: ENOENT: no such file or directory")
  ELSE IF ~ai.generated
  THEN Thrown("Error during AI preset generation: fetch failed")
  ELSE LET rawParsedSettings == JSONParse(StripCodeFence(ai.text))
       IN  IF rawParsedSettings.threw
           THEN Thrown("Error during AI preset generation: AI Response Parse Error: "
                         \o rawParsedSettings.message)
           ELSE Parsed(rawParsedSettings.value)

\* await generatePresetSettingsFromAI(primaryPhotoPath, inspirationPhotoPaths, textPrompt,
\* selectedAiModel): the settings it returns, or the Error it throws
generatePresetSettingsFromAI(ai) ==
  IF ~ai.apiKey
  THEN Thrown("Google API Key is missing. Set GOOGLE_API_KEY environment variable.")
  ELSE IF ~ai.readable
  THEN Thrown("Error during AI preset generation: ENOENT: no such file or directory")
  ELSE IF ~ai.generated
  THEN Thrown("Error during AI preset generation: fetch failed")
  ELSE LET rawParsedSettings == JSONParse(StripCodeFence(ai.text))
       IN  IF rawParsedSettings.threw
           THEN Thrown("Error during AI preset generation: AI Response Parse Error: "
                         \o rawParsedSettings.message)
           ELSE Parsed(validateAndNormalizeAISettings(rawParsedSettings.value))

\* ---- the steps of POST, one for each await ----
\* the forms a request carries: primaryPhoto absent, a text field, or a File
PrimaryPhotos ==
  {Null, Str(""), Str("photo"),
   File("IMG_0042.jpg", 1024),
   File("my photo#1 (2).jpg", MAX_FILE_SIZE_BYTES),
   File("large.jpg", MAX_FILE_SIZE_BYTES + 1)}

Forms ==
  {[primaryPhoto |-> p, inspirationPhotos |-> [i \in 1..n |-> File("style.jpg", 2048)]] :
     p \in PrimaryPhotos, n \in 0..MaxInspiration}

HandlerInit ==
  /\ formData \in Forms
  /\ server = NoRequest
  /\ pc = "POST"
  /\ rawSettings = Undefined
  /\ normalized = Undefined
  /\ renormalized = Undefined
  /\ xmp = <<>>
  /\ display = <<>>
  /\ thrown = ""
  /\ suppliedName = Undefined
  /\ calls = NoCalls
  /\ page = FirstRender("page.tsx")

\* return NextResponse.json(body, { status }): the finally block runs next
Return(status, body, locals) ==
  /\ server' = [locals EXCEPT !.status = status, !.body = body]
  /\ pc' = "finally"

\* an Error is thrown inside the try block: the catch block runs next
Throw(message, locals) ==
  /\ server' = locals
  /\ thrown' = message
  /\ pc' = "catch"

\* requestTmpDir = await createRequestSpecificTmpDir()
createRequestSpecificTmpDir ==
  /\ pc = "POST"
  /\ \E made \in BOOLEAN :
       IF made
       THEN /\ server' = [server EXCEPT !.requestTmpDir = RequestTmpDir, !.dirExists = TRUE]
            /\ pc' = "formData"
            /\ UNCHANGED thrown
       ELSE Throw("Could not create temporary directory.", server)
  /\ UNCHANGED <<rawSettings, normalized, renormalized, xmp, display, suppliedName, calls,
                 formData, page>>

\* the checks of the form that skip the size cap
StatusWithoutSizeCap(primaryPhotoFile) == IF ~Truthy(primaryPhotoFile) THEN 400 ELSE 0

\* if (!primaryPhotoFile) 400; if (primaryPhotoFile.size > MAX_FILE_SIZE_BYTES) 413;
\* 0 when the form passes
ValidationStatus(primaryPhotoFile) ==
  IF ~Truthy(primaryPhotoFile)
  THEN 400
  ELSE IF primaryPhotoFile.t = "file" /\ primaryPhotoFile.n > MAX_FILE_SIZE_BYTES
  THEN 413
  ELSE 0

\* const formData = await req.formData(), and the statements up to the first write
ReadFormData ==
  /\ pc = "formData"
  /\ \E parsed \in BOOLEAN :
       LET primaryPhotoFile == formData.primaryPhoto
           status == ValidationStatus(primaryPhotoFile)
       IN  IF ~parsed
           THEN Throw("Failed to parse body as FormData.", server)
           ELSE IF status = 400
           THEN Return(400, ErrorBody("Primary photo is required."), server) /\ UNCHANGED thrown
           ELSE IF status = 413
           THEN Return(413, ErrorBody("Primary photo exceeds size limit of 20MB."), server)
                  /\ UNCHANGED thrown
           ELSE IF primaryPhotoFile.t # "file"
           THEN Throw("Cannot read properties of undefined (reading 'replace')", server)
           ELSE /\ server' = [server EXCEPT !.primaryPhotoOriginalName =
                                              primaryPhotoOriginalName(primaryPhotoFile.s)]
                /\ pc' = "writePrimary"
                /\ UNCHANGED thrown
  /\ UNCHANGED <<rawSettings, normalized, renormalized, xmp, display, suppliedName, calls,
                 formData, page>>

\* await writeFile(primaryPhotoPath, primaryPhotoBuffer)
WritePrimaryPhoto ==
  /\ pc = "writePrimary"
  /\ \E written \in BOOLEAN :
       IF written
       THEN /\ server' = [server EXCEPT !.files = @ + 1]
            /\ pc' = IF Len(formData.inspirationPhotos) > 0 THEN "writeInspiration" ELSE "generate"
            /\ UNCHANGED thrown
       ELSE Throw("ENOSPC: no space left on device, write", server)
  /\ UNCHANGED <<rawSettings, normalized, renormalized, xmp, display, suppliedName, calls,
                 formData, page>>

\* for (const photoFile of inspirationPhotoFiles) await writeFile(inspirationPhotoPath, ...)
WriteInspirationPhoto ==
  /\ pc = "writeInspiration"
  /\ \E written \in BOOLEAN :
       IF written
       THEN /\ server' = [server EXCEPT !.files = @ + 1]
            /\ pc' = IF server.files = Len(formData.inspirationPhotos)
                     THEN "generate"
                     ELSE "writeInspiration"
            /\ UNCHANGED thrown
       ELSE Throw("ENOSPC: no space left on device, write", server)
  /\ UNCHANGED <<rawSettings, normalized, renormalized, xmp, display, suppliedName, calls,
                 formData, page>>

\* const aiGeneratedSettings = await generatePresetSettingsFromAI(...)
GeneratePreset ==
  /\ pc = "generate"
  /\ \E ai \in AIEnvironments :
       LET result == generatePresetSettingsFromAI(ai)
           called == [server EXCEPT !.aiCalls = @ + 1,
                                    !.aiResponseText =
                                      IF ai.apiKey /\ ai.readable /\ ai.generated
                                      THEN Str(ai.text) ELSE Undefined]
       IN  /\ rawSettings' = ParsedResponse(ai).value
           /\ IF result.threw
              THEN Throw(result.message, called) /\ UNCHANGED normalized
              ELSE /\ server' = called
                   /\ normalized' = result.value
                   /\ pc' = "render"
                   /\ UNCHANGED thrown
  /\ UNCHANGED <<renormalized, xmp, display, suppliedName, calls, formData, page>>

\* convertSettingsToXMP(aiGeneratedSettings, primaryPhotoOriginalName),
\* formatSettingsForDisplay(aiGeneratedSettings) and the 200 response
RenderPreset ==
  /\ pc = "render"
  /\ suppliedName' = Str(server.primaryPhotoOriginalName)
  /\ \E refused \in BOOLEAN :
       IF convertThrows(normalized)
       THEN Throw("Cannot convert undefined or null to object", server) /\ UNCHANGED <<xmp, display>>
       ELSE IF refused /\ WritesInheritedName(normalized)
       THEN Throw("InvalidCharacterError", server) /\ UNCHANGED <<xmp, display>>
       ELSE IF formatThrows(normalized)
       THEN /\ Throw("Cannot read properties of undefined (reading '0')", server)
            /\ xmp' = convertSettingsToXMP(normalized, Str(server.primaryPhotoOriginalName))
            /\ UNCHANGED display
       ELSE /\ xmp' = convertSettingsToXMP(normalized, Str(server.primaryPhotoOriginalName))
            /\ display' = formatSettingsForDisplay(normalized)
            /\ Return(200, OkBody(xmp', display', server.primaryPhotoOriginalName),
                      [server EXCEPT !.rendered = TRUE])
            /\ UNCHANGED thrown
  /\ UNCHANGED <<rawSettings, normalized, renormalized, calls, formData, page>>

\* catch (error) { ... return NextResponse.json({ error: errorMessage }, { status: 500 }) }
Catch ==
  /\ pc = "catch"
  /\ Return(500, ErrorBody(thrown), server)
  /\ UNCHANGED <<rawSettings, normalized, renormalized, xmp, display, thrown, suppliedName, calls,
                 formData, page>>

\* a finally block that never cleans up
CleansUpNever(requestTmpDir) == FALSE

\* if (requestTmpDir)
CleansUp(requestTmpDir) == Truthy(requestTmpDir)

\* finally { if (requestTmpDir) await cleanupRequestSpecificTmpDir(requestTmpDir) }: readdir,
\* unlink and rm may fail part of the way; the catch block of the cleanup logs and returns
Finally ==
  /\ pc = "finally"
  /\ IF CleansUp(server.requestTmpDir)
     THEN \E remaining \in 0..server.files, removed \in BOOLEAN :
            /\ removed => remaining = 0
            /\ server' = [server EXCEPT !.cleanups = @ + 1,
                                        !.files = remaining,
                                        !.dirExists = ~removed]
     ELSE UNCHANGED server
  /\ pc' = "settled"
  /\ UNCHANGED <<rawSettings, normalized, renormalized, xmp, display, thrown, suppliedName, calls,
                 formData, page>>

HandlerNext ==
  \/ createRequestSpecificTmpDir
  \/ ReadFormData
  \/ WritePrimaryPhoto
  \/ WriteInspirationPhoto
  \/ GeneratePreset
  \/ RenderPreset
  \/ Catch
  \/ Finally

HandlerSpec == HandlerInit /\ [][HandlerNext]_vars

\* ------------------------------------------------------------------------
\* HomePage
\* ------------------------------------------------------------------------
\* the most requests the page of the model sends
MaxRequests == 2

\* the two versions of the page in the repository
Variants == {"page.tsx", "part_000"}

\* the emoji of the feedback messages, which a TLA+ string cannot hold
RobotFace == "[robot]"

CheckMark == "[check]"

CrossMark == "[cross]"

\* the files a user picks
PhotoFiles == {File("IMG_0042.jpg", 1024), File("large.jpg", MAX_FILE_SIZE_BYTES + 1)}

\* URL.createObjectURL(file)
ObjectURL == Str("blob:original")

\* setGeneratedPresets([]) in page.tsx, setGeneratedPreset(null) in part_000
NoPresets(variant) == IF variant = "page.tsx" THEN Arr(<<>>) ELSE Null

\* the render of the preset list throws a TypeError: generatedPresets.length of undefined or
\* null in page.tsx once originalImageUrl is set, or preset.settings.exposure in PresetCard
RenderThrows(p) ==
  /\ p.variant = "page.tsx"
  /\ Truthy(p.originalImageUrl)
  /\ \/ ReadThrows(p.generatedPresets)
     \/ /\ IsArray(p.generatedPresets)
        /\ \E i \in 1..Len(p.generatedPresets.a) :
             \/ ReadThrows(p.generatedPresets.a[i])
             \/ ReadThrows(GetKey(p.generatedPresets.a[i], "settings"))

\* the state after the render that follows a handler
Rendered(p) == [p EXCEPT !.threw = RenderThrows(p)]

\* disabled={isLoading}
InputDisabled(p) == p.isLoading

\* a submit control that only looks at primaryPhoto
SubmitDisabledWithoutPhoto(p) == ~Truthy(p.primaryPhoto)

\* disabled={isLoading || !primaryPhoto}
SubmitDisabled(p) == p.isLoading \/ ~Truthy(p.primaryPhoto)

\* handleSubmit up to the await of fetch
handleSubmit(p) ==
  IF ~Truthy(p.primaryPhoto)
  THEN [p EXCEPT !.feedbackMessage = Str("Please upload a primary photo.")]
  ELSE [p EXCEPT !.isLoading = TRUE,
                 !.feedbackMessage =
                   Str(RobotFace \o " Generating your masterpiece... This might take a few moments."),
                 !.generatedPresets = NoPresets(p.variant),
                 !.inFlight = @ + 1,
                 !.sent = @ + 1]

\* the responses POST gives to a form
HandlerResponses(form) ==
  LET status == ValidationStatus(form.primaryPhoto)
      settings == validateAndNormalizeAISettings(Obj(<< <<"contrast", Whole(20)>> >>))
      name == primaryPhotoOriginalName(form.primaryPhoto.s)
  IN  {[status |-> 500, body |-> ErrorBody(m)] :
         m \in {"Could not create temporary directory.",
                "Google API Key is missing. Set GOOGLE_API_KEY environment variable.",
                "Error during AI preset generation: AI Response Parse Error: Unexpected token in JSON"}}
        \cup (IF status = 400
              THEN {[status |-> 400, body |-> ErrorBody("Primary photo is required.")]}
              ELSE IF status = 413
              THEN {[status |-> 413, body |-> ErrorBody("Primary photo exceeds size limit of 20MB.")]}
              ELSE IF form.primaryPhoto.t = "file"
              THEN {[status |-> 200,
                     body |-> OkBody(convertSettingsToXMP(settings, Str(name)),
                                     formatSettingsForDisplay(settings), name)]}
              ELSE {})

\* how the fetch of a form ends: with a response of POST, with a body that is not JSON
\* (response.json() rejects), or with a network failure (fetch rejects)
Outcomes(form) ==
  {[kind |-> "response", status |-> r.status, body |-> r.body] : r \in HandlerResponses(form)}
    \cup {[kind |-> "not JSON", status |-> 502, body |-> Undefined],
          [kind |-> "network failure", status |-> 0, body |-> Undefined]}

\* handleSubmit from the await of fetch on: try, catch and finally
settle(p, outcome) ==
  LET result == outcome.body
      ok == outcome.status >= 200 /\ outcome.status <= 299
      answered ==
        IF outcome.kind # "response"
        THEN [p EXCEPT !.feedbackMessage =
                Str("Network Error: Could not connect. Please check your connection and try again.")]
        ELSE IF ok /\ p.variant = "page.tsx"
        THEN [p EXCEPT !.feedbackMessage = GetKey(result, "message"),
                       !.generatedPresets = GetKey(result, "results")]
        ELSE IF ok
        THEN [p EXCEPT !.feedbackMessage =
                         Str(CheckMark \o " Success: " \o ToStr(GetKey(result, "message"))),
                       !.generatedPresets = result]
        ELSE [p EXCEPT !.feedbackMessage =
                Str(CrossMark \o " Error: "
                      \o (IF Truthy(GetKey(result, "error"))
                          THEN ToStr(GetKey(result, "error"))
                          ELSE "Something went wrong."))]
  IN  [answered EXCEPT !.isLoading = FALSE,
                       !.primaryPhoto = Null,
                       !.inspirationPhotos = <<>>,
                       !.inFlight = @ - 1]

PageInit ==
  /\ page \in {FirstRender(variant) : variant \in Variants}
  /\ formData = NoFormData
  /\ server = NoRequest
  /\ pc = "page"
  /\ rawSettings = Undefined
  /\ normalized = Undefined
  /\ renormalized = Undefined
  /\ xmp = <<>>
  /\ display = <<>>
  /\ thrown = ""
  /\ suppliedName = Undefined
  /\ calls = NoCalls

\* the page is mounted: no render has thrown
Mounted == pc = "page" /\ ~page.threw

handlePrimaryPhotoChange ==
  /\ Mounted
  /\ ~InputDisabled(page)
  /\ \E file \in PhotoFiles :
       page' = Rendered([page EXCEPT !.primaryPhoto = file,
                                     !.generatedPresets = NoPresets(page.variant),
                                     !.feedbackMessage = Str(""),
                                     !.originalImageUrl =
                                       IF page.variant = "page.tsx" THEN ObjectURL ELSE @])
  /\ UNCHANGED <<rawSettings, pc, normalized, renormalized, xmp, display, thrown, suppliedName,
                 calls, formData, server>>

handleInspirationPhotosChange ==
  /\ Mounted
  /\ ~InputDisabled(page)
  /\ \E n \in 0..MaxInspiration :
       page' = Rendered([page EXCEPT !.inspirationPhotos = [i \in 1..n |-> File("style.jpg", 2048)],
                                     !.generatedPresets = NoPresets(page.variant)])
  /\ UNCHANGED <<rawSettings, pc, normalized, renormalized, xmp, display, thrown, suppliedName,
                 calls, formData, server>>

handleTextPromptChange ==
  /\ Mounted
  /\ ~InputDisabled(page)
  /\ page' = Rendered([page EXCEPT !.generatedPresets = NoPresets(page.variant)])
  /\ UNCHANGED <<rawSettings, pc, normalized, renormalized, xmp, display, thrown, suppliedName,
                 calls, formData, server>>

\* the button is drawn while primaryPhoto is set, and is not disabled while loading
removePrimaryPhoto ==
  /\ Mounted
  /\ Truthy(page.primaryPhoto)
  /\ page' = Rendered([page EXCEPT !.primaryPhoto = Null,
                                   !.generatedPresets = NoPresets(page.variant),
                                   !.feedbackMessage = Str(""),
                                   !.originalImageUrl = Null])
  /\ UNCHANGED <<rawSettings, pc, normalized, renormalized, xmp, display, thrown, suppliedName,
                 calls, formData, server>>

\* setInspirationPhotos(prev => prev.filter((_, i) => i !== index))
removeInspirationPhoto ==
  /\ Mounted
  /\ \E index \in 1..Len(page.inspirationPhotos) :
       page' = Rendered([page EXCEPT !.inspirationPhotos =
                           [i \in 1..(Len(@) - 1) |-> IF i < index THEN @[i] ELSE @[i + 1]]])
  /\ UNCHANGED <<rawSettings, pc, normalized, renormalized, xmp, display, thrown, suppliedName,
                 calls, formData, server>>

\* the submit control is used: the form fires onSubmit
Submit ==
  /\ Mounted
  /\ ~SubmitDisabled(page)
  /\ page.sent < MaxRequests
  /\ page' = Rendered(handleSubmit(page))
  /\ formData' = IF page'.sent > page.sent
                 THEN [primaryPhoto |-> page.primaryPhoto,
                       inspirationPhotos |-> page.inspirationPhotos]
                 ELSE formData
  /\ UNCHANGED <<rawSettings, pc, normalized, renormalized, xmp, display, thrown, suppliedName,
                 calls, server>>

\* onSubmit fires without the control, on a form that has no primary photo
SubmitWithoutPhoto ==
  /\ Mounted
  /\ ~Truthy(page.primaryPhoto)
  /\ page.sent < MaxRequests
  /\ page' = Rendered(handleSubmit(page))
  /\ formData' = IF page'.sent > page.sent
                 THEN [primaryPhoto |-> page.primaryPhoto,
                       inspirationPhotos |-> page.inspirationPhotos]
                 ELSE formData
  /\ UNCHANGED <<rawSettings, pc, normalized, renormalized, xmp, display, thrown, suppliedName,
                 calls, server>>

\* the fetch of the request in flight ends
Settle ==
  /\ Mounted
  /\ page.inFlight > 0
  /\ \E outcome \in Outcomes(formData) :
       /\ page' = Rendered(settle(page, outcome))
       /\ server' = [server EXCEPT !.status = outcome.status, !.body = outcome.body]
  /\ UNCHANGED <<rawSettings, pc, normalized, renormalized, xmp, display, thrown, suppliedName,
                 calls, formData>>

PageNext ==
  \/ handlePrimaryPhotoChange
  \/ handleInspirationPhotosChange
  \/ handleTextPromptChange
  \/ removePrimaryPhoto
  \/ removeInspirationPhoto
  \/ Submit
  \/ SubmitWithoutPhoto
  \/ Settle

PageSpec == PageInit /\ [][PageNext]_vars

\* ------------------------------------------------------------------------
\* Properties
\* ------------------------------------------------------------------------
\* the calls of getNumber, getString and getToneCurve
CallsOf(fn) == {FieldCalls[i] : i \in {j \in 1..Len(FieldCalls) : FieldCalls[j].fn = fn}}

NumberCalls == CallsOf("getNumber")

CurveKeys == {call.key : call \in CallsOf("getToneCurve")}

\* the normalizer has returned
Returned == pc # "input"

\* the input is an object whose properties the normalizer reads
IsObjectInput == rawSettings.t = "object"

\* v pulled into [min, max], by comparison
Within(v, min, max) ==
  IF ~NumLeq(min, v) THEN min ELSE IF ~NumLeq(v, max) THEN max ELSE v

\* v is a number that is not NaN, and a whole number when the field is integer-only
IsValidNumberFor(call, v) ==
  /\ v.t = "number"
  /\ v.s # "NaN"
  /\ call.allowFloats \/ (v.s = "finite" /\ v.n % 10 = 0)

\* C2: a valid numeric input v of a bounded numeric field is normalized to
\* max(min, min(max, v)): the field is present, lies in [min, max], equals v when v is in
\* range and the nearer bound when it is not; it is never dropped or defaulted.
C2_ValidNumberClamped ==
  (Returned /\ IsObjectInput) =>
    \A call \in NumberCalls :
      LET v == GetKey(rawSettings, call.key)
      IN  (HasKey(rawSettings, call.key) /\ IsValidNumberFor(call, v)) =>
            /\ HasKey(normalized, call.key)
            /\ GetKey(normalized, call.key) = Within(v, call.min, call.max)
            /\ NumLeq(call.min, GetKey(normalized, call.key))
            /\ NumLeq(GetKey(normalized, call.key), call.max)

\* C2 witness: exposure 6 is above the range [-5, 5] and is normalized to 5, not to the default 0
C2_Witness ==
  /\ pc = "normalized"
  /\ rawSettings = SingleKeyObject("exposure", Whole(6))
  /\ GetKey(normalized, "exposure") = Whole(5)

\* v is not a number: a string, boolean, object, array, null or NaN
IsNonNumeric(v) == v.t \in {"string", "boolean", "object", "array", "null"} \/ v = NaN

\* C3: a non-numeric value under the key of a numeric field gives the field's default
\* (clamped to the range), and gives no key at all when the field has no default.
C3_NonNumericDefaults ==
  (Returned /\ IsObjectInput) =>
    \A call \in NumberCalls :
      (HasKey(rawSettings, call.key) /\ IsNonNumeric(GetKey(rawSettings, call.key))) =>
        IF call.def = Undefined
        THEN ~HasKey(normalized, call.key)
        ELSE /\ HasKey(normalized, call.key)
             /\ GetKey(normalized, call.key) = Within(call.def, call.min, call.max)

\* C3 witness: every key holds the text "high"; temperature gets its default 6500 and
\* splitToningBalance, which has no default, is not a key of the record
C3_Witness ==
  /\ pc = "normalized"
  /\ rawSettings = FullObject("text")
  /\ GetKey(normalized, "temperature") = Whole(6500)
  /\ ~HasKey(normalized, "splitToningBalance")

\* the integer-only fields
IntegerOnlyKeys ==
  {"temperature", "tint"}
    \cup {prefix \o HSL_COLORS[i] :
            prefix \in {"hslHue", "hslSaturation", "hslLuminance"}, i \in 1..Len(HSL_COLORS)}
    \cup {"sharpeningAmount", "sharpeningDetail", "sharpeningMasking"}
    \cup {"grainAmount", "grainSize", "grainFrequency"}
    \cup {"colorGrade" \o zone \o part :
            zone \in {"Shadow", "Midtone", "Highlight", "Global"}, part \in {"Hue", "Sat"}}
    \cup {"colorGradeBlending"}
    \cup {"splitToningHighlightHue", "splitToningHighlightSaturation",
          "splitToningShadowHue", "splitToningShadowSaturation"}

\* obj without its property key
WithoutKey(obj, key) == Obj(SelectSeq(obj.a, LAMBDA entry : entry[1] # key))

IsFractional(v) == v.t = "number" /\ v.s = "finite" /\ v.n % 10 # 0

\* C4: a fractional number under the key of an integer-only field gives exactly what the
\* normalizer gives for the same input without that key (the default, or no key); the
\* integer-only fields are the fields read with allowFloats false.
C4_FractionLikeAbsent ==
  /\ IntegerOnlyKeys = {call.key : call \in {c \in NumberCalls : ~c.allowFloats}}
  /\ (Returned /\ IsObjectInput) =>
       \A key \in IntegerOnlyKeys :
         (HasKey(rawSettings, key) /\ IsFractional(GetKey(rawSettings, key))) =>
           LET absent == validateAndNormalizeAISettings(WithoutKey(rawSettings, key))
           IN  /\ HasKey(normalized, key) = HasKey(absent, key)
               /\ GetKey(normalized, key) = GetKey(absent, key)

\* C4 witness: tint -150.5 is fractional; the record holds the default 0, not -150
C4_Witness ==
  /\ pc = "normalized"
  /\ rawSettings = SingleKeyObject("tint", Num(-1505))
  /\ GetKey(normalized, "tint") = Whole(0)

\* a candidate point is syntactically valid: a 2-element array of two numbers (NaN is no number)
IsSyntacticPoint(point) ==
  /\ point.t = "array"
  /\ Len(point.a) = 2
  /\ \A i \in {1, 2} : point.a[i].t = "number" /\ point.a[i].s # "NaN"

\* the valid points of a candidate list in their order, each coordinate pulled into [0, 255]
SurvivingPoints(points) ==
  LET kept == SelectSeq(points, IsSyntacticPoint)
  IN  [i \in 1..Len(kept) |->
         Arr(<<Within(kept[i].a[1], Whole(0), Whole(255)), Within(kept[i].a[2], Whole(0), Whole(255))>>)]

\* the points of the curve held under key, <<>> when the record has no such curve
CurvePoints(record, key) == IF HasKey(record, key) THEN GetKey(record, key).a ELSE <<>>

\* C5: for a curve key whose input is an array, the normalized curve is exactly the
\* subsequence of the syntactically valid points in their original order, each coordinate
\* clamped to [0,255]; [[0,0],["x",1],[300,-10],[128,128]] gives [[0,0],[255,0],[128,128]].
C5_CurveIsValidSubsequence ==
  (Returned /\ IsObjectInput) =>
    /\ \A key \in CurveKeys :
         (HasKey(rawSettings, key) /\ GetKey(rawSettings, key).t = "array") =>
           CurvePoints(normalized, key) = SurvivingPoints(GetKey(rawSettings, key).a)
    /\ rawSettings = ExampleCurve =>
         GetKey(normalized, "toneCurve") =
           Arr(<<Arr(<<Whole(0), Whole(0)>>), Arr(<<Whole(255), Whole(0)>>), Arr(<<Whole(128), Whole(128)>>)>>)

\* C5 witness: the example curve is normalized to three points, the malformed one dropped
C5_Witness ==
  /\ pc = "normalized"
  /\ rawSettings = ExampleCurve
  /\ Len(CurvePoints(normalized, "toneCurve")) = 3
  /\ CurvePoints(normalized, "toneCurve")[2] = Arr(<<Whole(255), Whole(0)>>)

\* C6: a curve key is in the record exactly when its input was an array holding at least
\* one valid point: an absent key, a non-array, an empty array and an array of malformed
\* points give no key, and one valid point keeps the curve whatever the other points are.
C6_CurvePresence ==
  Returned =>
    \A key \in CurveKeys :
      HasKey(normalized, key) <=>
        /\ IsObjectInput
        /\ HasKey(rawSettings, key)
        /\ GetKey(rawSettings, key).t = "array"
        /\ \E i \in 1..Len(GetKey(rawSettings, key).a) : IsSyntacticPoint(GetKey(rawSettings, key).a[i])

\* C6 witness: toneCurveRed holds a malformed point and a valid one, and the curve is kept
C6_Witness ==
  /\ pc = "normalized"
  /\ rawSettings =
       SingleKeyObject("toneCurveRed", Arr(<<Arr(<<Str("x"), Whole(1)>>), Arr(<<Whole(0), Whole(0)>>)>>))
  /\ CurvePoints(normalized, "toneCurveRed") = <<Arr(<<Whole(0), Whole(0)>>)>>

\* the versions the record may carry
ClaimedVersions == {"6.7", "11.0", "12.0", "13.0", "13.1", "13.2", "13.3", "14.0", "15.0", "16.0"}

\* record carries a claimed version, the one the input holds when that is a claimed version
\* string and "13.3" otherwise
VersionGated(input, record) ==
  LET given == GetKey(input, "processVersion")
      held == GetKey(record, "processVersion")
  IN  /\ HasKey(record, "processVersion")
      /\ held.t = "string"
      /\ held.s \in ClaimedVersions
      /\ held = IF given.t = "string" /\ given.s \in ClaimedVersions THEN given ELSE Str("13.3")

\* C7: every record the normalizer returns carries a processVersion of the known-version
\* set: a known input string unchanged, and "13.3" for an unknown string, a non-string
\* value, an absent key or an input that is no object.
C7_ProcessVersionKnown ==
  /\ Returned => VersionGated(rawSettings, normalized)
  /\ pc = "renormalized" => VersionGated(normalized, renormalized)

\* C7 witness: processVersion "7.0" is not a known version and is replaced by "13.3"
C7_Witness ==
  /\ pc = "normalized"
  /\ rawSettings = SingleKeyObject("processVersion", Str("7.0"))
  /\ GetKey(normalized, "processVersion") = Str("13.3")

\* C8: every record the normalizer returns, the minimal record of a non-object input
\* included, is a fixed point of the normalizer: same keys, same order, same values.
C8_Idempotent == pc = "renormalized" => renormalized = normalized

\* the record of the top-level guard
MinimalRecord == Obj(<< <<"processVersion", Str("13.3")>> >>)

\* C9: an input that is not an object, or is null, gives the record whose only key is
\* processVersion = "13.3": no field is processed and no default applied.
C9_NotObjectGivesMinimal ==
  (Returned /\ rawSettings.t \in {"undefined", "null", "boolean", "number", "string"}) =>
    /\ normalized = MinimalRecord
    /\ Keys(normalized) = <<"processVersion">>

\* C9 witness: null is normalized to the minimal record
C9_Witness ==
  /\ pc = "normalized"
  /\ rawSettings = Null
  /\ normalized = MinimalRecord

\* no property of record holds undefined
NoUndefinedValue(record) == \A i \in 1..Len(record.a) : record.a[i][2] # Undefined

\* C10: no key of a returned record holds undefined, and a field whose computed value is
\* absent is no key of the record.
C10_NoUndefinedKeys ==
  /\ Returned => NoUndefinedValue(normalized)
  /\ pc = "renormalized" => NoUndefinedValue(renormalized)
  /\ (Returned /\ IsObjectInput) =>
       \A i \in 1..Len(FieldCalls) :
         FieldValue(rawSettings, FieldCalls[i]) = Undefined => ~HasKey(normalized, FieldCalls[i].key)

\* C10 witness: the empty object gives no curve and no split-toning value, and the record
\* has the 61 keys of the other fields and not those nine
C10_Witness ==
  /\ pc = "normalized"
  /\ rawSettings = Obj(<<>>)
  /\ ~HasKey(normalized, "toneCurve")
  /\ ~HasKey(normalized, "splitToningBalance")
  /\ Len(normalized.a) = Len(FieldCalls) - 9

\* the value of a decimal digit, -1 for any other character
DigitValue(ch) ==
  CASE ch = "0" -> 0 [] ch = "1" -> 1 [] ch = "2" -> 2 [] ch = "3" -> 3 [] ch = "4" -> 4
    [] ch = "5" -> 5 [] ch = "6" -> 6 [] ch = "7" -> 7 [] ch = "8" -> 8 [] ch = "9" -> 9
    [] OTHER -> -1

IsDigits(text) ==
  Len(text) > 0 /\ \A i \in 1..Len(text) : DigitValue(SubSeq(text, i, i)) >= 0

RECURSIVE DigitsValue(_)
DigitsValue(text) ==
  IF Len(text) = 0
  THEN 0
  ELSE DigitsValue(SubSeq(text, 1, Len(text) - 1)) * 10 + DigitValue(SubSeq(text, Len(text), Len(text)))

\* text without a leading minus sign
Unsigned(text) == IF Len(text) > 0 /\ SubSeq(text, 1, 1) = "-" THEN SubSeq(text, 2, Len(text)) ELSE text

\* text ends in a decimal point and one digit
HasTenth(text) == Len(text) >= 3 /\ SubSeq(text, Len(text) - 1, Len(text) - 1) = "."

\* text is a decimal numeral with at most one digit after the point
IsDecimalText(text) ==
  LET body == Unsigned(text)
  IN  IF HasTenth(body)
      THEN IsDigits(SubSeq(body, 1, Len(body) - 2)) /\ IsDigits(SubSeq(body, Len(body), Len(body)))
      ELSE IsDigits(body)

\* the number a decimal numeral denotes, in tenths
TextTenths(text) ==
  LET body == Unsigned(text)
      size == IF HasTenth(body)
              THEN DigitsValue(SubSeq(body, 1, Len(body) - 2)) * 10
                     + DigitValue(SubSeq(body, Len(body), Len(body)))
              ELSE DigitsValue(body) * 10
  IN  IF body = text THEN size ELSE -size

\* text is a numeral of a number in [min, max]
TextWithin(text, min, max) ==
  IsDecimalText(text) /\ min.n <= TextTenths(text) /\ TextTenths(text) <= max.n

\* where the ", " of an entry "x, y" starts, 0 when there is none
CommaAt(text) ==
  IF \E i \in 1..(Len(text) - 1) : SubSeq(text, i, i + 1) = ", "
  THEN CHOOSE i \in 1..(Len(text) - 1) : SubSeq(text, i, i + 1) = ", "
  ELSE 0

\* text is "x, y" with both x and y numerals of numbers in [0, 255]
EntryWithin(text) ==
  /\ CommaAt(text) > 1
  /\ TextWithin(SubSeq(text, 1, CommaAt(text) - 1), Whole(0), Whole(255))
  /\ TextWithin(SubSeq(text, CommaAt(text) + 2, Len(text)), Whole(0), Whole(255))

\* the elements of the document that carry tag
ElementsOf(doc, tag) == SelectSeq(doc, LAMBDA el : el.tag = tag)

CurveTags == {"ToneCurvePV2012", "ToneCurvePV2012Red", "ToneCurvePV2012Green", "ToneCurvePV2012Blue"}

FieldKeys == {FieldCalls[i].key : i \in 1..Len(FieldCalls)}

\* the object that holds what obj holds under key, and nothing else
Alone(obj, key) == IF HasKey(obj, key) THEN SingleKeyObject(key, GetKey(obj, key)) ELSE Obj(<<>>)

\* C11: for an object input, the value (or absence) of each field of the record is the one
\* the normalizer gives to the input stripped of every other key, so anomalies and
\* unrecognized keys elsewhere neither abort nor alter the field; and no key of the record
\* is outside the normalizer's fields.
C11_FieldIndependence ==
  (Returned /\ ~IsNotObject(rawSettings)) =>
    /\ \A i \in 1..Len(FieldCalls) :
         LET call == FieldCalls[i]
             own == FieldValue(Alone(rawSettings, call.key), call)
         IN  /\ HasKey(normalized, call.key) <=> own # Undefined
             /\ GetKey(normalized, call.key) = own
    /\ \A i \in 1..Len(normalized.a) : normalized.a[i][1] \in FieldKeys

\* an input with an unrecognized key, an out-of-range exposure and a text under shadows
\* around a valid contrast has been normalized: contrast holds the value given, exposure is
\* clamped and shadows is defaulted
C11_Witness ==
  /\ pc = "normalized"
  /\ HasKey(rawSettings, UnknownKey)
  /\ GetKey(rawSettings, "shadows") = Str("high")
  /\ GetKey(normalized, "shadows") = Whole(0)
  /\ GetKey(rawSettings, "exposure") = Num(60)
  /\ GetKey(rawSettings, "highlights") = Num(1010)
  /\ GetKey(rawSettings, "contrast") = Whole(-100)
  /\ GetKey(normalized, "contrast") = Whole(-100)
  /\ GetKey(normalized, "exposure") = Whole(5)
  /\ ~HasKey(normalized, UnknownKey)

\* convertSettingsToXMP has returned a document
Serialized == pc = "serialized" /\ thrown = ""

\* the entries of the record that hold a value under a key of the tag table
HasTableEntry(entry) == entry[2] # Undefined /\ entry[1] \in TagKeys

MappedEntries == SelectSeq(normalized.a, HasTableEntry)

\* the elements of the document that are not PresetType, PresetName, ProcessVersion or a
\* summary flag: those ahead of PresetType
MetadataStart ==
  CHOOSE i \in 1..Len(xmp) : xmp[i].tag = "PresetType" /\ \A j \in 1..(i - 1) : xmp[j].tag # "PresetType"

MappedElements == SubSeq(xmp, 1, MetadataStart - 1)

\* C12: in a document that convertSettingsToXMP returns, every entry of the record that
\* holds a value under a key of the tag table has exactly one element, under its tag; an
\* entry whose key is not in the tag table has none, so there are as many mapped-field
\* elements as such entries; and no tag occurs twice among them.
C12_OneElementPerMappedField ==
  Serialized =>
    /\ \A i \in 1..Len(MappedEntries) :
         \E j \in 1..Len(MappedElements) :
           /\ MappedElements[j].tag = tagMap[MappedEntries[i][1]]
           /\ \A k \in 1..Len(MappedElements) : MappedElements[k].tag = MappedElements[j].tag => k = j
    /\ Len(MappedElements) = Len(MappedEntries)
    /\ \A j, k \in 1..Len(MappedElements) : MappedElements[j].tag = MappedElements[k].tag => j = k

\* the element written for the entry of the record under key
ElementOf(key) ==
  LET j == CHOOSE k \in 1..Len(MappedElements) : MappedElements[k].tag = tagMap[key]
  IN  MappedElements[j]

CurveFieldKeys == {"toneCurve", "toneCurveRed", "toneCurveGreen", "toneCurveBlue"}

\* the value is a sequence of points, each a pair of numbers
IsCurveValue(value) ==
  /\ IsArray(value)
  /\ \A i \in 1..Len(value.a) :
       /\ IsArray(value.a[i])
       /\ Len(value.a[i].a) = 2
       /\ value.a[i].a[1].t = "number"
       /\ value.a[i].a[2].t = "number"

\* text is the plain string form of a number or a string: the string itself, the name of
\* a number that is not finite, or the decimal numeral that denotes a finite number
IsPlainText(text, value) ==
  IF value.t = "string" THEN text = value.s
  ELSE IF value.s # "finite" THEN text = value.s
  ELSE IsDecimalText(text) /\ TextTenths(text) = value.n /\ text # "-0"

\* text is the two coordinates of the point joined by ', ', each in its plain string form
IsJoined(text, point) ==
  /\ CommaAt(text) > 1
  /\ IsPlainText(SubSeq(text, 1, CommaAt(text) - 1), point.a[1])
  /\ IsPlainText(SubSeq(text, CommaAt(text) + 2, Len(text)), point.a[2])

\* C13: in a document that convertSettingsToXMP returns, the element of a scalar field (a
\* number or a string) is a text element whose text is the plain string form of the value;
\* the element of a curve field with n >= 1 points is a container holding one list of
\* exactly n entries, the i-th being the i-th point's coordinates joined by ', '; the
\* element of a curve with no points is an empty container.
C13_ElementContent ==
  Serialized =>
    \A i \in 1..Len(MappedEntries) :
      LET key == MappedEntries[i][1]
          value == MappedEntries[i][2]
          element == ElementOf(key)
      IN  /\ (value.t \in {"number", "string"}) =>
                (element.kind = "text" /\ IsPlainText(element.text, value))
          /\ (key \in CurveFieldKeys /\ IsCurveValue(value) /\ Len(value.a) >= 1) =>
                /\ element.kind = "container"
                /\ Len(element.seqs) = 1
                /\ Len(element.seqs[1]) = Len(value.a)
                /\ \A n \in 1..Len(value.a) : IsJoined(element.seqs[1][n], value.a[n])
          /\ (key \in CurveFieldKeys /\ value = Arr(<<>>)) =>
                (element.kind = "container" /\ element.seqs = <<>>)

\* C13 witness: a record with a two-point curve, a one-point curve, an empty curve and
\* exposure 0.5 has been written: entries '0, 0' and '255, 255', one entry '10, 20', an
\* empty container, and the text '0.5'
C13_Witness ==
  /\ Serialized
  /\ GetKey(normalized, "toneCurveBlue") = TwoPoints
  /\ GetKey(normalized, "toneCurve") = Arr(<<>>)
  /\ xmp[1] = ContainerElement("ToneCurvePV2012Blue", << <<"0, 0", "255, 255">> >>)
  /\ xmp[2] = ContainerElement("ToneCurvePV2012Red", << <<"10, 20">> >>)
  /\ xmp[3] = ContainerElement("ToneCurvePV2012", <<>>)
  /\ xmp[4] = TextElement("ToneCurvePV", "2012")
  /\ xmp[5] = TextElement("Exposure2012", "0.5")

\* where the element with the tag is in the document, 0 when there is none
PositionOf(tag) ==
  IF \E i \in 1..Len(xmp) : xmp[i].tag = tag
  THEN CHOOSE i \in 1..Len(xmp) : xmp[i].tag = tag /\ \A j \in 1..(i - 1) : xmp[j].tag # tag
  ELSE 0

SummaryFlagTags == {"HasToneCurve", "HasSettings"}

\* C14: in a document that convertSettingsToXMP returns, the elements of the mapped fields
\* stand in the order of the record's keys; right after the last element ahead of it comes
\* PresetType with the text 'Normal', then PresetName with the supplied name, or
\* 'AI Generated Preset' when none was supplied, then ProcessVersion; whatever follows is a
\* summary flag, each at most once.
C14_EmissionOrder ==
  Serialized =>
    /\ \A i, j \in 1..Len(MappedEntries) :
         i < j =>
           /\ 0 < PositionOf(tagMap[MappedEntries[i][1]])
           /\ PositionOf(tagMap[MappedEntries[i][1]]) < PositionOf(tagMap[MappedEntries[j][1]])
           /\ PositionOf(tagMap[MappedEntries[j][1]]) < MetadataStart
    /\ Len(xmp) >= MetadataStart + 2
    /\ xmp[MetadataStart] = TextElement("PresetType", "Normal")
    /\ xmp[MetadataStart + 1] =
         TextElement("PresetName",
                     IF suppliedName = Undefined THEN "AI Generated Preset" ELSE suppliedName.s)
    /\ xmp[MetadataStart + 2].tag = "ProcessVersion"
    /\ \A i \in (MetadataStart + 3)..Len(xmp) :
         /\ xmp[i].tag \in SummaryFlagTags
         /\ \A j \in (MetadataStart + 3)..Len(xmp) : xmp[j].tag = xmp[i].tag => j = i

\* C14 witness: a record that enumerates processVersion, a hue-bucket field, an unknown key,
\* a curve, cameraProfile and exposure, against the table's order, has been written
\* without a name: the four mapped elements in the record's order, the three metadata
\* elements, then both flags
C14_Witness ==
  /\ Serialized
  /\ suppliedName = Undefined
  /\ Keys(normalized) = <<"processVersion", "hslLuminanceBlue", UnknownKey, "toneCurveGreen",
                          "cameraProfile", "exposure">>
  /\ [i \in 1..Len(xmp) |-> xmp[i].tag] =
       <<"LuminanceAdjustmentBlue", "ToneCurvePV2012Green", "CameraProfile", "Exposure2012",
         "PresetType", "PresetName", "ProcessVersion", "HasToneCurve", "HasSettings">>
  /\ xmp[6].text = "AI Generated Preset"

\* where the elements with the tag are in the document
PositionsOf(tag) == {i \in 1..Len(xmp) : xmp[i].tag = tag}

IsPresent(key) == HasKey(normalized, key) /\ GetKey(normalized, key) # Undefined

\* C16: a document that convertSettingsToXMP returns has the element HasToneCurve, with
\* the text 'True', if and only if one of toneCurve, toneCurveRed, toneCurveGreen and
\* toneCurveBlue is present in the record, an empty curve included.
C16_ToneCurveFlag ==
  Serialized =>
    /\ (\E key \in CurveFieldKeys : IsPresent(key)) <=> PositionsOf("HasToneCurve") # {}
    /\ \A i \in PositionsOf("HasToneCurve") : xmp[i] = TextElement("HasToneCurve", "True")

\* the 24 hue-bucket fields
HueBucketKeys ==
  {HslPrefixes[p] \o HSL_COLORS[c] : p \in 1..Len(HslPrefixes), c \in 1..Len(HSL_COLORS)}

\* C17: a document that convertSettingsToXMP returns has the element HasSettings, with the
\* text 'True', if and only if one of the 24 hue-bucket fields is present in the record
\* with a value; other keys that start with 'hsl', and hue-bucket keys that hold
\* undefined, do not bring the flag.
C17_HueBucketFlag ==
  Serialized =>
    /\ (\E key \in HueBucketKeys : IsPresent(key)) <=> PositionsOf("HasSettings") # {}
    /\ \A i \in PositionsOf("HasSettings") : xmp[i] = TextElement("HasSettings", "True")

\* C18: for every record the normalizer returns, convertSettingsToXMP and
\* formatSettingsForDisplay return without raising an error: the document holds at least
\* its three metadata elements and the display string at least its header line.
C18_SerializerTotal ==
  /\ pc = "serialized" => (thrown = "" /\ Len(xmp) >= 3)
  /\ pc = "displayed" => (thrown = "" /\ Len(display) >= 1 /\ display[1] = "Suggested Lightroom Settings:")

\* C18 witness: the record normalized from a curve with a malformed point and a point out
\* of range has been rendered, its curve line included
C18_Witness ==
  /\ pc = "displayed"
  /\ rawSettings = ExampleCurve
  /\ thrown = ""
  /\ display[16] = "- Tone Curve : (0,0), (255,0), (128,128)"

\* C19: in every record the normalizer returns, every coordinate of every point of every
\* curve field is an integer in [0,255].
C19_CurveCoordinatesIntegral ==
  Returned =>
    \A key \in CurveKeys :
      \A i \in 1..Len(CurvePoints(normalized, key)) :
        \A c \in {1, 2} :
          LET coordinate == CurvePoints(normalized, key)[i].a[c]
          IN  /\ coordinate.t = "number"
              /\ coordinate.s = "finite"
              /\ 0 <= coordinate.n /\ coordinate.n <= 2550
              /\ coordinate.n % 10 = 0

\* a candidate point is a 2-element array of two finite numbers
IsFinitePoint(point) ==
  /\ point.t = "array"
  /\ Len(point.a) = 2
  /\ \A i \in {1, 2} : point.a[i].t = "number" /\ point.a[i].s = "finite"

\* C20: for a curve key whose input is an array, the normalizer accepts exactly as many
\* points as the input has 2-element arrays of two finite numbers: a point with a NaN or
\* infinite coordinate, a point of another length and a non-array point are dropped, not
\* clamped into the curve.
C20_OnlyFinitePointsAccepted ==
  (Returned /\ IsObjectInput) =>
    \A key \in CurveKeys :
      (HasKey(rawSettings, key) /\ GetKey(rawSettings, key).t = "array") =>
        Len(CurvePoints(normalized, key)) = Len(SelectSeq(GetKey(rawSettings, key).a, IsFinitePoint))

StringCalls == CallsOf("getString")

\* C21: for each string field (toneCurvePV, cameraProfile, processVersion), getString
\* gives the default for an absent key, the string itself for a present string, and the
\* default, never a text made from the value, for a present value that is not a string;
\* the record holds that result under toneCurvePV and cameraProfile, and under
\* processVersion what the version gate makes of it.
C21_StringFields ==
  (Returned /\ IsObjectInput) =>
    \A call \in StringCalls :
      LET held == GetKey(rawSettings, call.key)
          got == getString(rawSettings, call.key, call.def)
      IN  /\ call.def \in {Str("2012"), Str("Adobe Standard"), Str("13.3")}
          /\ ~HasKey(rawSettings, call.key) => got = call.def
          /\ (HasKey(rawSettings, call.key) /\ held.t = "string") => got = held
          /\ (HasKey(rawSettings, call.key) /\ held.t # "string") => got = call.def
          /\ call.key # "processVersion" => GetKey(normalized, call.key) = got
          /\ call.key = "processVersion" =>
                GetKey(normalized, call.key) =
                  (IF got.s \in KnownProcessVersions THEN got ELSE Str("13.3"))

\* C21 witness: cameraProfile 13, a number, has been normalized to 'Adobe Standard'
C21_Witness ==
  /\ pc = "normalized"
  /\ rawSettings = SingleKeyObject("cameraProfile", Whole(13))
  /\ normalized # Undefined
  /\ GetKey(normalized, "cameraProfile") = Str("Adobe Standard")

\* formatSettingsForDisplay has returned
Displayed == pc = "displayed" /\ thrown = ""

\* the entries of the record whose value is not undefined
DefinedEntries == SelectSeq(normalized.a, IsDefinedEntry)

GradingZones == {<<"Shadow", "Shadows">>, <<"Midtone", "Midtones">>,
                 <<"Highlight", "Highlights">>, <<"Global", "Global">>}

GradingProperties == {"Hue", "Sat", "Lum"}

\* the color-grading keys with the label 'Color Grading <Zone> <Property>', the zone being
\* none for Blending and Balance
GradingLabels ==
  {<<"colorGrade" \o zone[1] \o property, "Color Grading " \o zone[2] \o " " \o property>> :
     zone \in GradingZones, property \in GradingProperties}
    \cup {<<"colorGradeBlending", "Color Grading Blending">>,
          <<"colorGradeBalance", "Color Grading Balance">>}

\* the hue-bucket keys with the label 'HSL <Type> <Bucket>'
HueBucketLabels ==
  {<<"hsl" \o type \o HSL_COLORS[c], "HSL " \o type \o " " \o HSL_COLORS[c]>> :
     type \in {"Hue", "Saturation", "Luminance"}, c \in 1..Len(HSL_COLORS)}

\* the curve keys with the label 'Tone Curve <Channel>'
CurveLabels ==
  {<<"toneCurve" \o channel, "Tone Curve " \o channel>> : channel \in {"", "Red", "Green", "Blue"}}

LabelledKeys == {pair[1] : pair \in GradingLabels \cup HueBucketLabels \cup CurveLabels}

LabelOf(key) ==
  (CHOOSE pair \in GradingLabels \cup HueBucketLabels \cup CurveLabels : pair[1] = key)[2]

\* the points of a curve as a ', '-joined list of '(x,y)'
PointList(points) ==
  JoinWith([i \in 1..Len(points) |->
              "(" \o NumberToString(points[i].a[1]) \o "," \o NumberToString(points[i].a[2]) \o ")"],
           ", ")

\* C22: formatSettingsForDisplay returns the header line and then one line per entry of
\* the record whose value is not undefined, in the record's order, each starting with
\* '- '; the line of a hue-bucket key is '- HSL <Type> <Bucket>: <value>', of a curve key
\* '- Tone Curve <Channel>: ' and its points as '(x,y)' joined by ', ', and of a
\* color-grading key '- Color Grading <Zone> <Property>: <value>', colorGradeBlending and
\* colorGradeBalance being 'Color Grading Blending' and 'Color Grading Balance'.
C22_FlatDisplay ==
  Displayed =>
    /\ display[1] = "Suggested Lightroom Settings:"
    /\ Len(display) = 1 + Len(DefinedEntries)
    /\ \A i \in 1..Len(DefinedEntries) :
         LET key == DefinedEntries[i][1]
             value == DefinedEntries[i][2]
             line == display[i + 1]
         IN  /\ SubSeq(line, 1, 2) = "- "
             /\ (key \in LabelledKeys /\ key \notin CurveFieldKeys /\ value.t = "number") =>
                   line = "- " \o LabelOf(key) \o ": " \o NumberToString(value)
             /\ (key \in CurveFieldKeys /\ IsCurveValue(value)) =>
                   line = "- " \o LabelOf(key) \o ": " \o PointList(value.a)

\* C23: in a batch of calls of convertSettingsToXMP, the document of every call is the one
\* a lone call gives for its record and name, whatever calls ran before it, so two calls
\* with the same record and name give the same document; and the record a call was given
\* is the same after it.
C23_CallLocal ==
  \A i \in 1..Len(calls.history) :
    LET call == calls.history[i]
    IN  /\ call.xmp = convertSettingsToXMP(call.settings, call.presetName)
        /\ call.settingsAfter = call.settings
        /\ \A j \in 1..Len(calls.history) :
             (calls.history[j].settings = call.settings
                /\ calls.history[j].presetName = call.presetName) =>
               calls.history[j].xmp = call.xmp

\* C23 witness: the same record and name have been serialized first and third, with
\* another record in between that shares the tag Exposure2012, and the third document
\* still has its Exposure2012 element
C23_Witness ==
  /\ Len(calls.history) = 3
  /\ calls.history[1].settings = SingleKeyObject("exposure", Num(5))
  /\ calls.history[3].settings = calls.history[1].settings
  /\ calls.history[3].presetName = calls.history[1].presetName
  /\ HasKey(calls.history[2].settings, "toneCurveBlue")
  /\ calls.history[3].xmp[1] = TextElement("Exposure2012", "0.5")

\* the calls whose field has a default
DefaultedCalls == {FieldCalls[i] : i \in {j \in 1..Len(FieldCalls) : FieldCalls[j].def # Undefined}}

\* the five split-toning fields
SplitToningKeys == {SplitToningCalls[i].key : i \in 1..Len(SplitToningCalls)}

\* C24: for every object input the record holds every field that has a default, 61 of
\* them, each with its default when the input has no such key; a curve field is in the
\* record exactly when the input holds an array with a valid point under its key, and a
\* split-toning field exactly when the input holds a valid number under its key; the
\* record has no other key.
C24_FixedKeySet ==
  (Returned /\ ~IsNotObject(rawSettings)) =>
    /\ Cardinality(DefaultedCalls) = 61
    /\ \A call \in DefaultedCalls :
         /\ HasKey(normalized, call.key)
         /\ ~HasKey(rawSettings, call.key) => GetKey(normalized, call.key) = call.def
    /\ \A key \in CurveKeys :
         HasKey(normalized, key) <=>
           /\ GetKey(rawSettings, key).t = "array"
           /\ \E i \in 1..Len(GetKey(rawSettings, key).a) : IsSyntacticPoint(GetKey(rawSettings, key).a[i])
    /\ \A call \in NumberCalls :
         call.key \in SplitToningKeys =>
           (HasKey(normalized, call.key) <=>
              (HasKey(rawSettings, call.key) /\ IsValidNumberFor(call, GetKey(rawSettings, call.key))))
    /\ \A i \in 1..Len(normalized.a) :
         normalized.a[i][1] \in {call.key : call \in DefaultedCalls} \cup CurveKeys \cup SplitToningKeys

\* C24 witness: the empty object has been normalized to the 61 defaulted fields
C24_Witness ==
  /\ pc = "normalized"
  /\ rawSettings = Obj(<<>>)
  /\ Len(normalized.a) = 61
  /\ GetKey(normalized, "grainSize") = Whole(25)
  /\ ~HasKey(normalized, "toneCurve")
  /\ ~HasKey(normalized, "splitToningBalance")

\* C25: when a record from the normalizer is serialized, the document has one
\* ProcessVersion element, its text is a known version and is the record's processVersion,
\* so the fallback '6.7' of the serializer is not taken; the text is '6.7' only when the
\* input held the string '6.7' under processVersion.
C25_PipelineVersion ==
  pc = "serialized" =>
    /\ thrown = ""
    /\ Cardinality(PositionsOf("ProcessVersion")) = 1
    /\ \A i \in PositionsOf("ProcessVersion") :
         /\ xmp[i].text \in KnownProcessVersions
         /\ HasKey(normalized, "processVersion")
         /\ GetKey(normalized, "processVersion") = Str(xmp[i].text)
         /\ xmp[i].text = "6.7" => GetKey(rawSettings, "processVersion") = Str("6.7")

\* C25 witness: an input whose processVersion is not known, '7.0', has been normalized and
\* serialized, and the document says '13.3'
C25_Witness ==
  /\ Serialized
  /\ rawSettings = SingleKeyObject("processVersion", Str("7.0"))
  /\ \E i \in PositionsOf("ProcessVersion") : xmp[i] = TextElement("ProcessVersion", "13.3")

\* JSON.parse of the text the AI answered with, fences stripped
ParsedText == JSONParse(StripCodeFence(server.aiResponseText.s))

\* C26: the record that POST hands to convertSettingsToXMP and formatSettingsForDisplay is
\* what validateAndNormalizeAISettings returns for the parsed text of the AI, and the document
\* and the display string of a 200 response are rendered from it; when the text of the AI is
\* not valid JSON, an Error is thrown, nothing is rendered and the response is a 500.
C26_OnlyNormalizedRendered ==
  /\ (pc = "render" \/ server.rendered) =>
       /\ server.aiResponseText # Undefined
       /\ ~ParsedText.threw
       /\ rawSettings = ParsedText.value
       /\ normalized = validateAndNormalizeAISettings(ParsedText.value)
  /\ server.status = 200 =>
       /\ server.rendered
       /\ GetKey(server.body, "xmp") =
            Document(convertSettingsToXMP(validateAndNormalizeAISettings(rawSettings),
                                          Str(server.primaryPhotoOriginalName)))
       /\ GetKey(server.body, "displaySettings") =
            Document(formatSettingsForDisplay(validateAndNormalizeAISettings(rawSettings)))
  /\ (server.aiResponseText # Undefined /\ ParsedText.threw) =>
       /\ pc \in {"catch", "finally", "settled"}
       /\ StartsWith(thrown, "Error during AI preset generation: AI Response Parse Error: ")
       /\ normalized = Undefined /\ xmp = <<>> /\ display = <<>> /\ ~server.rendered
       /\ pc \in {"finally", "settled"} =>
            server.status = 500 /\ server.body = ErrorBody(thrown)

\* C26 witness: the AI answered a fenced JSON object with contrast 20; the handler has settled
\* with a 200 whose document holds the normalized contrast and the defaults of the normalizer
C26_Witness ==
  /\ pc = "settled"
  /\ server.status = 200
  /\ server.aiResponseText = Str(Fence \o "json\n{\"contrast\":20}\n" \o Fence)
  /\ rawSettings = Obj(<< <<"contrast", Whole(20)>> >>)
  /\ GetKey(normalized, "contrast") = Whole(20)
  /\ HasKey(normalized, "exposure")
  /\ \E i \in 1..Len(xmp) : xmp[i] = TextElement("Contrast2012", "20")

\* the response that the path taken through the try block chose
ChosenResponse ==
  IF thrown # ""
  THEN [status |-> 500, body |-> ErrorBody(thrown)]
  ELSE IF server.rendered
  THEN [status |-> 200, body |-> OkBody(xmp, display, server.primaryPhotoOriginalName)]
  ELSE IF ~Truthy(formData.primaryPhoto)
  THEN [status |-> 400, body |-> ErrorBody("Primary photo is required.")]
  ELSE [status |-> 413, body |-> ErrorBody("Primary photo exceeds size limit of 20MB.")]

\* C27: cleanupRequestSpecificTmpDir does not run before the response is chosen; when the
\* handler settles it has run exactly once if the temp directory was created and not at all
\* otherwise, whatever the status; and whether the cleanup failed or not, the response is
\* the one chosen before it.
C27_CleanupOnce ==
  /\ pc \notin {"settled"} => server.cleanups = 0
  /\ pc = "settled" =>
       /\ server.status \in {200, 400, 413, 500}
       /\ server.cleanups = (IF server.requestTmpDir = Null THEN 0 ELSE 1)
       /\ server.requestTmpDir = Null => thrown = "Could not create temporary directory."
       /\ server.status = ChosenResponse.status
       /\ server.body = ChosenResponse.body
  /\ pc = "finally" => server.status = ChosenResponse.status /\ server.body = ChosenResponse.body

\* C27 witness: a 200 was chosen, the cleanup ran once and failed, leaving the directory and
\* a file behind, and the handler settled with the 200
C27_Witness ==
  /\ pc = "settled"
  /\ server.status = 200
  /\ server.cleanups = 1
  /\ server.dirExists
  /\ server.files > 0

\* the primaryPhoto of the form is a File of more than 20 MB
IsLarge(primaryPhoto) == primaryPhoto.t = "file" /\ primaryPhoto.n > MAX_FILE_SIZE_BYTES

\* no file was written and the AI was not called
NoWorkDone == server.files = 0 /\ server.aiCalls = 0 /\ server.aiResponseText = Undefined /\ ~server.rendered

\* a 200 comes after the AI call returned and both renderings succeeded
OkAfterAllWork ==
  server.status = 200 =>
    /\ server.aiCalls = 1
    /\ normalized # Undefined
    /\ server.rendered
    /\ xmp # <<>> /\ display # <<>>
    /\ thrown = ""
    /\ ValidationStatus(formData.primaryPhoto) = 0

\* C28 as stated: a request without a primaryPhoto is answered 400 and one with a
\* primaryPhoto of more than 20 MB is answered 413, in both cases with no file written and
\* no AI call; a 200 comes only after the AI call returned and both renderings succeeded.
C28_AsStated ==
  /\ (pc = "settled" /\ formData.primaryPhoto = Null) => server.status = 400
  /\ (pc = "settled" /\ IsLarge(formData.primaryPhoto)) => server.status = 413
  /\ server.status \in {400, 413} => NoWorkDone
  /\ OkAfterAllWork

\* C28, amended: a request whose temp directory was created and whose form data was read is
\* answered 400 without a primaryPhoto and 413 with a primaryPhoto of more than 20 MB (when
\* one of the two steps threw, it is answered 500); in all these cases no file was written and
\* the AI was not called; a 200 comes only after the AI call returned and both renderings
\* succeeded.
C28_ValidationFirst ==
  /\ (pc = "settled" /\ formData.primaryPhoto = Null) =>
       /\ server.status = (IF thrown = "" THEN 400 ELSE 500)
       /\ NoWorkDone
  /\ (pc = "settled" /\ IsLarge(formData.primaryPhoto)) =>
       /\ server.status = (IF thrown = "" THEN 413 ELSE 500)
       /\ NoWorkDone
  /\ (thrown # "" /\ (formData.primaryPhoto = Null \/ IsLarge(formData.primaryPhoto))) =>
       thrown \in {"Could not create temporary directory.", "Failed to parse body as FormData."}
  /\ server.status \in {400, 413} => NoWorkDone
  /\ OkAfterAllWork

\* C28 witness: a form with a primaryPhoto of 20 MB and one byte, and two inspiration photos,
\* was answered 413 with nothing written
C28_Witness ==
  /\ pc = "settled"
  /\ IsLarge(formData.primaryPhoto)
  /\ Len(formData.inspirationPhotos) = 2
  /\ server.status = 413
  /\ server.cleanups = 1
  /\ NoWorkDone

\* at most one request is in flight, and isLoading is true exactly while one is
OneInFlight ==
  /\ page.inFlight \in {0, 1}
  /\ page.isLoading <=> page.inFlight = 1
  /\ page.sent <= MaxRequests

\* what a step of the page does to the submission
SubmissionStep ==
  /\ ~Truthy(page.primaryPhoto) =>
       /\ page'.sent = page.sent /\ page'.inFlight <= page.inFlight /\ formData' = formData
       /\ ~page.isLoading => ~page'.isLoading
  /\ page'.sent > page.sent =>
       /\ Truthy(page.primaryPhoto) /\ ~page.isLoading /\ page.inFlight = 0
       /\ page'.isLoading /\ page'.inFlight = 1 /\ page'.sent = page.sent + 1
       /\ formData'.primaryPhoto = page.primaryPhoto
       /\ formData'.inspirationPhotos = page.inspirationPhotos
  /\ page'.inFlight < page.inFlight =>
       /\ ~page'.isLoading
       /\ page'.primaryPhoto = Null
       /\ page'.inspirationPhotos = <<>>
       /\ page'.sent = page.sent
  /\ (page.isLoading /\ ~page'.isLoading) => page'.inFlight < page.inFlight

\* C29: no step of a page without a primary photo, handleSubmit included, sends a request
\* or sets isLoading; a request is sent only by a page that has a primary photo and is not loading,
\* and isLoading is true from then on; when the request settles, with a 200, an error status,
\* a body that is not JSON or a network failure, isLoading is false again and primaryPhoto
\* and inspirationPhotos are cleared; at most one request is in flight at any time.
C29_SubmissionStateMachine == []OneInFlight /\ [][SubmissionStep]_vars

\* C29 witness: the second request of a page has settled with a network failure, after the
\* user removed the primary photo while it was in flight
C29_Witness ==
  /\ page.variant = "part_000"
  /\ page.sent = 2
  /\ page.inFlight = 0
  /\ ~page.isLoading
  /\ page.primaryPhoto = Null
  /\ formData.primaryPhoto = File("large.jpg", MAX_FILE_SIZE_BYTES + 1)
  /\ server.status = 0
  /\ page.feedbackMessage =
       Str("Network Error: Could not connect. Please check your connection and try again.")

\* the fields PresetCard reads of a preset
PresetFields == {"xmp", "displaySettings", "originalFilename", "generatedAt", "settings"}

\* C30: after a request of page.tsx was answered 200, the body holds message and results,
\* generatedPresets is an array whose entries hold xmp, displaySettings, originalFilename,
\* generatedAt and settings, and the render did not read a property of undefined.
C30_ResponseContract ==
  (pc = "page" /\ page.variant = "page.tsx" /\ server.status = 200 /\ page.inFlight = 0) =>
    /\ HasKey(server.body, "message")
    /\ HasKey(server.body, "results")
    /\ IsArray(page.generatedPresets)
    /\ \A i \in 1..Len(page.generatedPresets.a) :
         \A field \in PresetFields : HasKey(page.generatedPresets.a[i], field)
    /\ ~page.threw

====
